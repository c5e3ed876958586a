--------------------------- MODULE BranchOpsProofs ---------------------------
(***************************************************************************)
(* Theorems of BranchOps, for any number of clients, workspaces, branches  *)
(* and commits, any starting history and any bound on the operations:      *)
(*   TypeCorrect    the state is well typed,                               *)
(*   MovesAdvance   a commit, import, rm, mv, promote or fast-forward only *)
(*                  ever moves a born branch to a descendant of its head,  *)
(*   SnapshotsWereHeads     a snapshot holds what the branch once held,    *)
(*   ReflogFaithful         the reflog has a line for each own move,       *)
(*   RegisterUsed           the refs move only by compare-and-set,         *)
(*   MutationsBuiltOnParent, OwnMovesCovered, StagedConflictsMeanRaces     *)
(*                          what a process alone in its workspace can      *)
(*                          rely on,                                       *)
(*   OperationsRunOut       every step of an operation is one less to go.  *)
(*                                                                         *)
(* The first part is about the operations under way: the compare-and-set   *)
(* is about to install a descendant of the commit it expects (OpsOK).      *)
(* That is inductive only together with the fact that every commit an      *)
(* operation, a ref or a snapshot names is stored (RefsStored), and that   *)
(* the ancestor relation of the stored commits is closed, so that          *)
(* publishing one commit changes no other's ancestors (HistoryClosed).     *)
(*                                                                         *)
(* The second part dates things.  The history variable moves tells what a  *)
(* branch held at each moment: its head is what the last move left         *)
(* (HeadIsLast).  Everything a client reads, caches and compares is then   *)
(* the head of some moment, and the proofs are about which one: no older   *)
(* than the client's own moves, and a move later with every attempt of     *)
(* commit --staged that failed.                                            *)
(***************************************************************************)
EXTENDS BranchOps, FiniteSetTheorems, TLAPS

-----------------------------------------------------------------------------
\* What holds of an operation under way, in a store with these commits.
RecOK(rec, commits, ancestors) ==
    /\ rec.source \in commits \union {None}
    /\ rec.target \in commits \union {None}
    /\ rec.expected \in commits \union {None}
    /\ rec.new \in commits \union {None}
    /\ rec.seen \in commits \union {None, Absent}
    /\ rec.kind = "merge" => rec.path \in {"join", "ff"}
    /\ rec.kind \in {"reset", "branch", "delete"} => rec.path = "move"
    /\ rec.pc # "idle" /\ rec.path \in {"join", "ff"} => rec.source \in commits
    /\ rec.pc \notin {"idle", "target", "done"} /\ rec.path = "join" =>
           rec.target \in commits
    /\ rec.pc = "cas" /\ rec.path \in {"extend", "ff"} =>
           /\ rec.new \in commits
           /\ rec.expected = None \/ rec.expected \in ancestors[rec.new]

OpsOK == \A c \in Clients : RecOK(op[c], stored, anc)

RefsStored ==
    /\ \A b \in Branches : head[b] \in stored \union {None, Absent}
    /\ \A w \in Workspaces, b \in Branches :
         snapshot[w][b] \in stored \union {None, NoSnap}

HistoryClosed ==
    \A k \in stored :
        /\ parents[k] \subseteq stored
        /\ anc[k] = {k} \union UNION {anc[p] : p \in parents[k]}

Inv == TypeOK /\ HistoryClosed /\ RefsStored /\ OpsOK

\* The store only gains commits, and the old ones keep their ancestors.
StoreGrows ==
    /\ stored \subseteq stored'
    /\ \A k \in stored : anc'[k] = anc[k]

\* Client c's operation, and no other, becomes one that is in order.
Replaced(c) ==
    \E rec \in OpRecords :
        op' = [op EXCEPT ![c] = rec] /\ RecOK(rec, stored', anc')

-----------------------------------------------------------------------------
(* The values the steps of an operation write into its record.             *)

LEMMA Literals ==
    /\ {"idle", "target", "state", "cache", "base", "decide", "cas", "reread",
         "snap", "log", "done"} \subseteq PCs
    /\ {"none", "updated", "unchanged", "conflict", "nonff", "error"}
         \subseteq Results
    /\ {"extend", "ff", "join", "move"} \subseteq Paths
    /\ {"commit", "staged", "import", "mutate", "promote", "merge", "reset",
         "branch", "delete"} \subseteq Kinds
    /\ None \in Values
  BY DEF PCs, Results, Paths, Kinds, Values

LEMMA Reads ==
    ASSUME Inv, NEW c \in Clients
    PROVE  /\ Workspace(c) \in Workspaces
           /\ op[c] \in OpRecords
           /\ RecOK(op[c], stored, anc)
           /\ op[c].branch \in Branches
           /\ {op[c].source, op[c].target, op[c].expected, op[c].new}
                \subseteq Values
           /\ op[c].tries \in Int
           /\ AfterState(c) \in {"base", "decide"}
           /\ op[c].kind = "mutate" <=> AfterState(c) = "base"
           /\ \A b \in Branches :
                /\ head[b] \in Values \union {Absent}
                /\ head[b] \in stored \union {None, Absent}
                /\ CommitOf(head[b]) \in Values
                /\ CommitOf(head[b]) \in stored \union {None}
                /\ snapshot[Workspace(c)][b] \in Values \union {NoSnap}
                /\ snapshot[Workspace(c)][b] \in stored \union {None, NoSnap}
           /\ current[Workspace(c)] \in Branches
<1>1. TypeOK /\ RefsStored /\ OpsOK
  BY DEF Inv
<1>2. Workspace(c) \in Workspaces
  BY BranchOpsAssumption DEF Workspace
<1>3. op[c] \in OpRecords /\ RecOK(op[c], stored, anc)
  BY <1>1 DEF TypeOK, OpsOK
<1>4. /\ op[c].branch \in Branches
      /\ {op[c].source, op[c].target, op[c].expected, op[c].new} \subseteq Values
      /\ op[c].tries \in Int
  BY <1>3 DEF OpRecords
<1>5. /\ AfterState(c) \in {"base", "decide"}
      /\ op[c].kind = "mutate" <=> AfterState(c) = "base"
  BY DEF AfterState
<1>6. ASSUME NEW b \in Branches
      PROVE  /\ head[b] \in Values \union {Absent}
             /\ head[b] \in stored \union {None, Absent}
             /\ CommitOf(head[b]) \in Values
             /\ CommitOf(head[b]) \in stored \union {None}
  BY <1>1 DEF TypeOK, RefsStored, CommitOf, Values
<1>7. ASSUME NEW b \in Branches
      PROVE  /\ snapshot[Workspace(c)][b] \in Values \union {NoSnap}
             /\ snapshot[Workspace(c)][b] \in stored \union {None, NoSnap}
  BY <1>1, <1>2 DEF TypeOK, RefsStored
<1>8. current[Workspace(c)] \in Branches
  BY <1>1, <1>2 DEF TypeOK
<1> QED
  BY <1>2, <1>3, <1>4, <1>5, <1>6, <1>7, <1>8

(* Ending with a result, or forgetting the operation, is always in order.  *)
LEMMA Ended ==
    ASSUME Inv, NEW c \in Clients, op[c].pc # "idle", NEW result \in Results,
           Finish(c, result), UNCHANGED <<stored, anc>>
    PROVE  Replaced(c)
<1> DEFINE rec == [op[c] EXCEPT !.pc = "done", !.result = result]
<1>0. op[c] \in OpRecords /\ RecOK(op[c], stored, anc)
  BY Reads
<1>1. op' = [op EXCEPT ![c] = rec]
  BY DEF Finish, Inv, TypeOK
<1>2. rec \in OpRecords
  BY <1>0, Literals DEF OpRecords
<1>3. RecOK(rec, stored, anc)
  BY <1>0 DEF RecOK, OpRecords
<1> HIDE DEF rec
<1> QED
  BY <1>1, <1>2, <1>3 DEF Replaced

LEMMA Forgotten ==
    ASSUME Inv, NEW c \in Clients, op' = [op EXCEPT ![c] = Idle]
    PROVE  Replaced(c)
<1>1. Idle \in OpRecords
  BY Literals, BranchOpsAssumption DEF Idle, OpRecords
<1>2. RecOK(Idle, stored', anc')
  BY DEF Idle, RecOK
<1> QED
  BY <1>1, <1>2 DEF Replaced

LEMMA ResolveMergeTargetInOrder ==
    ASSUME Inv, NEW c \in Clients, ResolveMergeTarget(c)
    PROVE  Replaced(c)
<1> DEFINE r1 == [op[c] EXCEPT !.pc = "state", !.path = "ff"]
<1> DEFINE r2 == [op[c] EXCEPT !.pc = "state", !.target = head[op[c].branch]]
<1>1. op[c] \in OpRecords /\ RecOK(op[c], stored, anc) /\ UNCHANGED <<stored, anc>>
  BY Reads DEF ResolveMergeTarget, store
<1>2. \/ op' = [op EXCEPT ![c] = r1]
      \/ (head[op[c].branch] \in Commits) /\ op' = [op EXCEPT ![c] = r2]
      \/ Finish(c, "error")
      \/ Finish(c, "unchanged")
  BY <1>1 DEF ResolveMergeTarget, Inv, TypeOK
<1>3. ASSUME op' = [op EXCEPT ![c] = r1]
      PROVE  r1 \in OpRecords /\ RecOK(r1, stored, anc)
  <2>1. r1 \in OpRecords
    BY <1>1, <1>3, Reads, Literals DEF OpRecords, ResolveMergeTarget
  <2>2. RecOK(r1, stored, anc)
    BY <1>1, <1>3, Reads DEF OpRecords, RecOK, ResolveMergeTarget
  <2> QED  BY <2>1, <2>2
<1>4. ASSUME op' = [op EXCEPT ![c] = r2],
             head[op[c].branch] \in Commits
      PROVE  r2 \in OpRecords /\ RecOK(r2, stored, anc)
  <2>1. head[op[c].branch] \in stored /\ head[op[c].branch] \in Values
    BY <1>4, Reads, BranchOpsAssumption DEF Values
  <2>2. r2 \in OpRecords
    BY <1>1, <2>1, Literals DEF OpRecords
  <2>3. RecOK(r2, stored, anc)
    BY <1>1, <2>1 DEF OpRecords, RecOK, ResolveMergeTarget
  <2> QED  BY <2>2, <2>3
<1>5. op[c].pc # "idle"
  BY DEF ResolveMergeTarget
<1> HIDE DEF r1, r2
<1> QED
  BY <1>1, <1>2, <1>3, <1>4, <1>5, Ended, Literals DEF Replaced

LEMMA ReadResetStateInOrder ==
    ASSUME Inv, NEW c \in Clients, ReadResetState(c)
    PROVE  Replaced(c)
<1> DEFINE rec == [op[c] EXCEPT !.pc = "cas", !.expected = CommitOf(head[op[c].branch]),
                            !.new = op[c].source]
<1>1. op[c] \in OpRecords /\ RecOK(op[c], stored, anc) /\ UNCHANGED <<stored, anc>>
  BY Reads DEF ReadResetState, store
<1>2. \/ op' = [op EXCEPT ![c] = rec]
      \/ Finish(c, "unchanged")
  BY <1>1 DEF ReadResetState, Inv, TypeOK
<1>3. ASSUME op' = [op EXCEPT ![c] = rec]
      PROVE  rec \in OpRecords /\ RecOK(rec, stored, anc)
  <2>1. rec \in OpRecords
    BY <1>1, <1>3, Reads, Literals DEF OpRecords, ReadResetState
  <2>2. RecOK(rec, stored, anc)
    BY <1>1, <1>3, Reads DEF OpRecords, RecOK, ReadResetState
  <2> QED  BY <2>1, <2>2
<1>4. op[c].pc # "idle"
  BY DEF ReadResetState
<1> HIDE DEF rec
<1> QED
  BY <1>1, <1>2, <1>3, <1>4, Ended, Literals DEF Replaced

LEMMA ReadHeadCommitInOrder ==
    ASSUME Inv, NEW c \in Clients, ReadHeadCommit(c)
    PROVE  Replaced(c)
<1> DEFINE rec == [op[c] EXCEPT !.pc = "cas",
                            !.new = CommitOf(head[current[Workspace(c)]])]
<1>1. op[c] \in OpRecords /\ RecOK(op[c], stored, anc) /\ UNCHANGED <<stored, anc>>
  BY Reads DEF ReadHeadCommit, store
<1>2. op' = [op EXCEPT ![c] = rec]
  BY <1>1 DEF ReadHeadCommit, Inv, TypeOK
<1>3. ASSUME op' = [op EXCEPT ![c] = rec]
      PROVE  rec \in OpRecords /\ RecOK(rec, stored, anc)
  <2>1. rec \in OpRecords
    BY <1>1, <1>3, Reads, Literals DEF OpRecords
  <2>2. RecOK(rec, stored, anc)
    BY <1>1, <1>3, Reads DEF OpRecords, RecOK, ReadHeadCommit
  <2> QED  BY <2>1, <2>2
<1> HIDE DEF rec
<1> QED
  BY <1>1, <1>2, <1>3 DEF Replaced

LEMMA UseSnapshotInOrder ==
    ASSUME Inv, NEW c \in Clients, UseSnapshot(c)
    PROVE  Replaced(c)
<1> DEFINE rec == [op[c] EXCEPT !.pc = AfterState(c),
                            !.expected = snapshot[Workspace(c)][op[c].branch]]
<1>1. op[c] \in OpRecords /\ RecOK(op[c], stored, anc) /\ UNCHANGED <<stored, anc>>
  BY Reads DEF UseSnapshot, store
<1>2. op' = [op EXCEPT ![c] = rec]
  BY <1>1 DEF UseSnapshot, Inv, TypeOK
<1>3. ASSUME op' = [op EXCEPT ![c] = rec]
      PROVE  rec \in OpRecords /\ RecOK(rec, stored, anc)
  <2>1. rec \in OpRecords
    BY <1>1, <1>3, Reads, Literals DEF OpRecords, UseSnapshot
  <2>2. RecOK(rec, stored, anc)
    BY <1>1, <1>3, Reads DEF OpRecords, RecOK, UseSnapshot, AfterState
  <2> QED  BY <2>1, <2>2
<1> HIDE DEF rec
<1> QED
  BY <1>1, <1>2, <1>3 DEF Replaced

LEMMA StateOfUnbornInOrder ==
    ASSUME Inv, NEW c \in Clients, StateOfUnborn(c)
    PROVE  Replaced(c)
<1> DEFINE rec == [op[c] EXCEPT !.pc = "decide", !.expected = None]
<1>1. op[c] \in OpRecords /\ RecOK(op[c], stored, anc) /\ UNCHANGED <<stored, anc>>
  BY Reads DEF StateOfUnborn, store
<1>2. \/ op' = [op EXCEPT ![c] = rec]
      \/ Finish(c, "error")
  BY <1>1 DEF StateOfUnborn, Inv, TypeOK
<1>3. ASSUME op' = [op EXCEPT ![c] = rec]
      PROVE  rec \in OpRecords /\ RecOK(rec, stored, anc)
  <2>1. rec \in OpRecords
    BY <1>1, <1>3, Reads, Literals DEF OpRecords, StateOfUnborn
  <2>2. RecOK(rec, stored, anc)
    BY <1>1, <1>3, Reads DEF OpRecords, RecOK, StateOfUnborn, UnbornAllowed
  <2> QED  BY <2>1, <2>2
<1>4. op[c].pc # "idle"
  BY DEF StateOfUnborn
<1> HIDE DEF rec
<1> QED
  BY <1>1, <1>2, <1>3, <1>4, Ended, Literals DEF Replaced

LEMMA ReadStateInOrder ==
    ASSUME Inv, NEW c \in Clients, ReadState(c)
    PROVE  Replaced(c)
<1> DEFINE rec == [op[c] EXCEPT !.pc = "cache", !.expected = head[op[c].branch]]
<1>1. op[c] \in OpRecords /\ RecOK(op[c], stored, anc) /\ UNCHANGED <<stored, anc>>
  BY Reads DEF ReadState, store
<1>2. op' = [op EXCEPT ![c] = rec]
  BY <1>1 DEF ReadState, Inv, TypeOK
<1>3. ASSUME op' = [op EXCEPT ![c] = rec]
      PROVE  rec \in OpRecords /\ RecOK(rec, stored, anc)
  <2>1. rec \in OpRecords
    BY <1>1, <1>3, Reads, Literals DEF OpRecords, ReadState
  <2>2. RecOK(rec, stored, anc)
    BY <1>1, <1>3, Reads DEF OpRecords, RecOK, ReadState
  <2> QED  BY <2>1, <2>2
<1> HIDE DEF rec
<1> QED
  BY <1>1, <1>2, <1>3 DEF Replaced

LEMMA CacheStateInOrder ==
    ASSUME Inv, NEW c \in Clients, CacheState(c)
    PROVE  Replaced(c)
<1> DEFINE rec == [op[c] EXCEPT !.pc = AfterState(c)]
<1>1. op[c] \in OpRecords /\ RecOK(op[c], stored, anc) /\ UNCHANGED <<stored, anc>>
  BY Reads DEF CacheState, store
<1>2. op' = [op EXCEPT ![c] = rec]
  BY <1>1 DEF CacheState, Inv, TypeOK
<1>3. ASSUME op' = [op EXCEPT ![c] = rec]
      PROVE  rec \in OpRecords /\ RecOK(rec, stored, anc)
  <2>1. rec \in OpRecords
    BY <1>1, <1>3, Reads, Literals DEF OpRecords, CacheState
  <2>2. RecOK(rec, stored, anc)
    BY <1>1, <1>3, Reads DEF OpRecords, RecOK, CacheState, AfterState
  <2> QED  BY <2>1, <2>2
<1> HIDE DEF rec
<1> QED
  BY <1>1, <1>2, <1>3 DEF Replaced

LEMMA ReadBaseInOrder ==
    ASSUME Inv, NEW c \in Clients, ReadBase(c)
    PROVE  Replaced(c)
<1> DEFINE rec == [op[c] EXCEPT !.pc = "decide",
                            !.target = snapshot[Workspace(c)][op[c].branch]]
<1>1. op[c] \in OpRecords /\ RecOK(op[c], stored, anc) /\ UNCHANGED <<stored, anc>>
  BY Reads DEF ReadBase, store
<1>2. \/ (snapshot[Workspace(c)][op[c].branch] \notin {None, NoSnap}) /\ op' = [op EXCEPT ![c] = rec]
      \/ Finish(c, "error")
  BY <1>1 DEF ReadBase, Inv, TypeOK
<1>3. ASSUME op' = [op EXCEPT ![c] = rec],
             snapshot[Workspace(c)][op[c].branch] \notin {None, NoSnap}
      PROVE  rec \in OpRecords /\ RecOK(rec, stored, anc)
  <2>1. rec \in OpRecords
    BY <1>1, <1>3, Reads, Literals DEF OpRecords, ReadBase
  <2>2. RecOK(rec, stored, anc)
    BY <1>1, <1>3, Reads DEF OpRecords, RecOK, ReadBase
  <2> QED  BY <2>1, <2>2
<1>4. op[c].pc # "idle"
  BY DEF ReadBase
<1> HIDE DEF rec
<1> QED
  BY <1>1, <1>2, <1>3, <1>4, Ended, Literals DEF Replaced

LEMMA FastForwardInOrder ==
    ASSUME Inv, NEW c \in Clients, FastForward(c)
    PROVE  Replaced(c)
<1> DEFINE rec == [op[c] EXCEPT !.pc = "cas", !.new = op[c].source]
<1>1. op[c] \in OpRecords /\ RecOK(op[c], stored, anc) /\ UNCHANGED <<stored, anc>>
  BY Reads DEF FastForward, store
<1>2. \/ (op[c].expected = None \/ op[c].expected \in anc[op[c].source]) /\ op' = [op EXCEPT ![c] = rec]
      \/ Finish(c, "updated")
      \/ Finish(c, "nonff")
  BY <1>1 DEF FastForward, Inv, TypeOK, IsAncestor
<1>3. ASSUME op' = [op EXCEPT ![c] = rec],
             op[c].expected = None \/ op[c].expected \in anc[op[c].source]
      PROVE  rec \in OpRecords /\ RecOK(rec, stored, anc)
  <2>1. rec \in OpRecords
    BY <1>1, <1>3, Reads, Literals DEF OpRecords, FastForward
  <2>2. RecOK(rec, stored, anc)
    BY <1>1, <1>3, Reads DEF OpRecords, RecOK, FastForward
  <2> QED  BY <2>1, <2>2
<1>4. op[c].pc # "idle"
  BY DEF FastForward
<1> HIDE DEF rec
<1> QED
  BY <1>1, <1>2, <1>3, <1>4, Ended, Literals DEF Replaced

LEMMA CasAppliedInOrder ==
    ASSUME Inv, NEW c \in Clients, CasApplied(c)
    PROVE  Replaced(c)
<1> DEFINE rec == [op[c] EXCEPT !.pc = "reread", !.moved = TRUE]
<1>1. op[c] \in OpRecords /\ RecOK(op[c], stored, anc) /\ UNCHANGED <<stored, anc>>
  BY Reads DEF CasApplied, store
<1>2. op' = [op EXCEPT ![c] = rec]
  BY <1>1 DEF CasApplied, Inv, TypeOK
<1>3. ASSUME op' = [op EXCEPT ![c] = rec]
      PROVE  rec \in OpRecords /\ RecOK(rec, stored, anc)
  <2>1. rec \in OpRecords
    BY <1>1, <1>3, Reads, Literals DEF OpRecords, CasApplied
  <2>2. RecOK(rec, stored, anc)
    BY <1>1, <1>3, Reads DEF OpRecords, RecOK, CasApplied
  <2> QED  BY <2>1, <2>2
<1> HIDE DEF rec
<1> QED
  BY <1>1, <1>2, <1>3 DEF Replaced

LEMMA CasRefusedInOrder ==
    ASSUME Inv, NEW c \in Clients, CasRefused(c)
    PROVE  Replaced(c)
<1> DEFINE rec == [op[c] EXCEPT !.pc = "reread"]
<1>1. op[c] \in OpRecords /\ RecOK(op[c], stored, anc) /\ UNCHANGED <<stored, anc>>
  BY Reads DEF CasRefused, store
<1>2. \/ op' = [op EXCEPT ![c] = rec]
      \/ Finish(c, "error")
  BY <1>1 DEF CasRefused, Inv, TypeOK
<1>3. ASSUME op' = [op EXCEPT ![c] = rec]
      PROVE  rec \in OpRecords /\ RecOK(rec, stored, anc)
  <2>1. rec \in OpRecords
    BY <1>1, <1>3, Reads, Literals DEF OpRecords, CasRefused
  <2>2. RecOK(rec, stored, anc)
    BY <1>1, <1>3, Reads DEF OpRecords, RecOK, CasRefused
  <2> QED  BY <2>1, <2>2
<1>4. op[c].pc # "idle"
  BY DEF CasRefused
<1> HIDE DEF rec
<1> QED
  BY <1>1, <1>2, <1>3, <1>4, Ended, Literals DEF Replaced

LEMMA RereadInOrder ==
    ASSUME Inv, NEW c \in Clients, Reread(c)
    PROVE  Replaced(c)
<1> DEFINE rec == [op[c] EXCEPT !.pc = "snap", !.seen = head[op[c].branch]]
<1>1. op[c] \in OpRecords /\ RecOK(op[c], stored, anc) /\ UNCHANGED <<stored, anc>>
  BY Reads DEF Reread, store
<1>2. op' = [op EXCEPT ![c] = rec]
  BY <1>1 DEF Reread, Inv, TypeOK
<1>3. ASSUME op' = [op EXCEPT ![c] = rec]
      PROVE  rec \in OpRecords /\ RecOK(rec, stored, anc)
  <2>1. rec \in OpRecords
    BY <1>1, <1>3, Reads, Literals DEF OpRecords, Reread
  <2>2. RecOK(rec, stored, anc)
    BY <1>1, <1>3, Reads DEF OpRecords, RecOK, Reread
  <2> QED  BY <2>1, <2>2
<1> HIDE DEF rec
<1> QED
  BY <1>1, <1>2, <1>3 DEF Replaced

LEMMA WriteSnapshotInOrder ==
    ASSUME Inv, NEW c \in Clients, WriteSnapshot(c)
    PROVE  Replaced(c)
<1> DEFINE r1 == [op[c] EXCEPT !.pc = "log"]
<1> DEFINE r2 == [op[c] EXCEPT !.pc = "state", !.tries = op[c].tries - 1]
<1>1. op[c] \in OpRecords /\ RecOK(op[c], stored, anc) /\ UNCHANGED <<stored, anc>>
  BY Reads DEF WriteSnapshot, store
<1>2. \/ op' = [op EXCEPT ![c] = r1]
      \/ op' = [op EXCEPT ![c] = r2]
      \/ Finish(c, "updated")
      \/ Finish(c, "conflict")
  BY <1>1 DEF WriteSnapshot, AfterSnapshot, Inv, TypeOK
<1>3. ASSUME op' = [op EXCEPT ![c] = r1]
      PROVE  r1 \in OpRecords /\ RecOK(r1, stored, anc)
  <2>1. r1 \in OpRecords
    BY <1>1, <1>3, Reads, Literals DEF OpRecords, WriteSnapshot
  <2>2. RecOK(r1, stored, anc)
    BY <1>1, <1>3, Reads DEF OpRecords, RecOK, WriteSnapshot
  <2> QED  BY <2>1, <2>2
<1>4. ASSUME op' = [op EXCEPT ![c] = r2]
      PROVE  r2 \in OpRecords /\ RecOK(r2, stored, anc)
  <2>1. r2 \in OpRecords
    <3>1. op[c].tries - 1 \in Int
      BY Reads
    <3> QED  BY <1>1, <3>1, Literals DEF OpRecords
  <2>2. RecOK(r2, stored, anc)
    BY <1>1, <1>4, Reads DEF OpRecords, RecOK, WriteSnapshot
  <2> QED  BY <2>1, <2>2
<1>5. op[c].pc # "idle"
  BY DEF WriteSnapshot
<1> HIDE DEF r1, r2
<1> QED
  BY <1>1, <1>2, <1>3, <1>4, <1>5, Ended, Literals DEF Replaced

-----------------------------------------------------------------------------
(* Publishing a commit: the store grows, and the operation is about to     *)
(* install the commit it published.                                        *)

LEMMA PublishGrows ==
    ASSUME Inv, NEW c \in Clients, NEW ps \in SUBSET stored, Publish(c, ps)
    PROVE  StoreGrows /\ HistoryClosed'
<1>1. PICK k \in Commits :
        /\ k \notin stored \/ parents[k] = ps
        /\ stored' = stored \union {k}
        /\ parents' = [parents EXCEPT ![k] = ps]
        /\ anc' = [anc EXCEPT ![k] = {k} \union UNION {anc[p] : p \in ps}]
  BY DEF Publish
<1>2. /\ stored \subseteq Commits
      /\ parents \in [Commits -> SUBSET Commits]
      /\ anc \in [Commits -> SUBSET Commits]
      /\ HistoryClosed
  BY DEF Inv, TypeOK
<1>3. ASSUME NEW j \in stored
      PROVE  anc'[j] = anc[j] /\ parents'[j] = parents[j]
  BY <1>1, <1>2, <1>3 DEF HistoryClosed
<1>4. StoreGrows
  BY <1>1, <1>3 DEF StoreGrows
<1>5. ASSUME NEW j \in stored'
      PROVE  /\ parents'[j] \subseteq stored'
             /\ anc'[j] = {j} \union UNION {anc'[p] : p \in parents'[j]}
  <2>1. CASE j \in stored
    BY <1>1, <1>2, <1>3, <2>1 DEF HistoryClosed
  <2>2. CASE j \notin stored
    <3>1. j = k /\ parents'[j] = ps
      BY <1>1, <1>2, <2>2
    <3>2. anc'[j] = {j} \union UNION {anc[p] : p \in ps}
      BY <1>1, <1>2, <3>1
    <3> QED  BY <1>1, <1>3, <3>1, <3>2
  <2> QED  BY <2>1, <2>2
<1> QED
  BY <1>4, <1>5 DEF HistoryClosed

LEMMA PublishInOrder ==
    ASSUME Inv, NEW c \in Clients, NEW ps \in SUBSET stored, Publish(c, ps),
           op[c].pc = "decide",
           op[c].path = "extend" => ps = {op[c].expected} \ {None},
           op[c].path # "ff"
    PROVE  Replaced(c)
<1>1. PICK k \in Commits :
        /\ stored' = stored \union {k}
        /\ anc' = [anc EXCEPT ![k] = {k} \union UNION {anc[p] : p \in ps}]
        /\ op' = [op EXCEPT ![c].pc = "cas", ![c].new = k]
  BY DEF Publish
<1> DEFINE rec == [op[c] EXCEPT !.pc = "cas", !.new = k]
<1>2. op[c] \in OpRecords /\ RecOK(op[c], stored, anc)
  BY Reads
<1>3. op' = [op EXCEPT ![c] = rec]
  BY <1>1 DEF Inv, TypeOK
<1>4. rec \in OpRecords
  BY <1>2, Literals DEF OpRecords, Values
<1>5. op[c].path = "extend" /\ op[c].expected # None =>
        op[c].expected \in anc'[k]
  <2> SUFFICES ASSUME op[c].path = "extend", op[c].expected # None
               PROVE  op[c].expected \in anc'[k]
    OBVIOUS
  <2>1. op[c].expected \in stored /\ op[c].expected \in ps
    BY <1>2 DEF RecOK
  <2>2. op[c].expected \in anc[op[c].expected]
    BY <2>1 DEF Inv, HistoryClosed
  <2>3. anc'[k] = {k} \union UNION {anc[p] : p \in ps}
    BY <1>1 DEF Inv, TypeOK
  <2> QED  BY <2>1, <2>2, <2>3
<1>6. RecOK(rec, stored', anc')
  BY <1>1, <1>2, <1>5 DEF OpRecords, RecOK
<1> HIDE DEF rec
<1> QED
  BY <1>3, <1>4, <1>6 DEF Replaced

LEMMA ExtendPublishes ==
    ASSUME Inv, NEW c \in Clients, Extend(c)
    PROVE  StoreGrows /\ HistoryClosed' /\ Replaced(c)
<1>1. {op[c].expected} \ {None} \in SUBSET stored
  BY Reads DEF RecOK
<1>2. /\ op[c].pc = "decide" /\ op[c].path = "extend"
      /\ Publish(c, {op[c].expected} \ {None})
  BY DEF Extend
<1> QED
  BY <1>1, <1>2, PublishGrows, PublishInOrder

LEMMA JoinPublishes ==
    ASSUME Inv, NEW c \in Clients, Join(c)
    PROVE  StoreGrows /\ HistoryClosed' /\ Replaced(c)
<1>1. /\ op[c].pc = "decide" /\ op[c].path = "join"
      /\ Publish(c, {op[c].target, op[c].source})
  BY DEF Join
<1>2. {op[c].target, op[c].source} \in SUBSET stored
  BY <1>1, Reads DEF RecOK
<1> QED
  BY <1>1, <1>2, PublishGrows, PublishInOrder

-----------------------------------------------------------------------------
(* An operation that begins is in order: the commits it is given are       *)
(* stored.                                                                 *)

LEMMA StartInOrder ==
    ASSUME Inv, NEW c \in Clients, NEW kind \in Kinds, NEW path \in Paths,
           NEW b \in Branches, NEW pc \in PCs,
           NEW source \in stored \union {None},
           NEW expected \in stored \union {None},
           Start(c, kind, path, b, pc, source, expected, None),
           kind = "merge" => path = "join" /\ source \in stored /\ pc = "target",
           kind \in {"reset", "branch", "delete"} => path = "move",
           kind # "merge" => path \in {"extend", "move"},
           pc = "cas" => path = "move"
    PROVE  Replaced(c)
<1> DEFINE rec == [Idle EXCEPT !.pc = pc, !.kind = kind, !.path = path,
                               !.branch = b, !.source = source,
                               !.expected = expected, !.new = None,
                               !.tries = IF kind = "staged" THEN StagedRetries
                                                            ELSE 1,
                               !.since = Len(moves[b])]
<1>1. op' = [op EXCEPT ![c] = rec] /\ UNCHANGED <<stored, anc>>
  BY DEF Start, store
<1>2. rec \in OpRecords
  <2>1. Len(moves[b]) \in Nat
    BY DEF Inv, TypeOK
  <2>2. (IF kind = "staged" THEN StagedRetries ELSE 1) \in Int
    BY BranchOpsAssumption
  <2>3. source \in Values /\ expected \in Values
    BY DEF Inv, TypeOK, Values
  <2> QED  BY <2>1, <2>2, <2>3, Literals DEF OpRecords, Idle
<1>3. RecOK(rec, stored, anc)
  BY DEF RecOK, Idle
<1> HIDE DEF rec
<1> QED
  BY <1>1, <1>2, <1>3 DEF Replaced

LEMMA BeginInOrder ==
    ASSUME Inv, NEW c \in Clients, Begin(c)
    PROVE  Replaced(c) \/ UNCHANGED op
<1>1. ASSUME StartCommit(c)  PROVE Replaced(c)
  <2>1. PICK kind \in {"commit", "staged"} :
          Start(c, kind, "extend", current[Workspace(c)], "state", None, None, None)
    BY <1>1 DEF StartCommit
  <2>2. current[Workspace(c)] \in Branches
    BY Reads
  <2> QED  BY ZenonT(60), <2>1, <2>2, StartInOrder, Literals
<1>2. ASSUME NEW b \in Branches, StartImport(c, b)
      PROVE  Replaced(c)
  <2>1. Start(c, "import", "extend", b, "state", None, None, None)
    BY <1>2 DEF StartImport
  <2> QED  BY <2>1, StartInOrder, Literals
<1>3. ASSUME NEW b \in Branches, StartMutate(c, b)
      PROVE  Replaced(c)
  <2>1. Start(c, "mutate", "extend", b, "state", None, None, None)
    BY <1>3 DEF StartMutate
  <2> QED  BY <2>1, StartInOrder, Literals
<1>4. ASSUME NEW b \in Branches, StartPromote(c, b)
      PROVE  Replaced(c)
  <2>1. Start(c, "promote", "extend", b, "decide", None, head[b], None)
    BY <1>4 DEF StartPromote
  <2>2. head[b] \in stored
    BY <1>4, Reads, BranchOpsAssumption DEF StartPromote, Values
  <2> QED  BY <2>1, <2>2, StartInOrder, Literals
<1>5. ASSUME NEW b \in Branches, StartBranch(c, b)
      PROVE  Replaced(c)
  <2>1. Start(c, "branch", "move", b, "target", None, None, None)
    BY <1>5 DEF StartBranch
  <2> QED  BY <2>1, StartInOrder, Literals
<1>6. ASSUME NEW b \in Branches, StartDelete(c, b)
      PROVE  Replaced(c)
  <2>1. Start(c, "delete", "move", b, "cas", None, head[b], None)
    BY <1>6 DEF StartDelete
  <2>2. head[b] \in stored
    BY <1>6, Reads DEF StartDelete, CommitOf
  <2> QED  BY <2>1, <2>2, StartInOrder, Literals
<1>7. ASSUME NEW b \in Branches, Checkout(c, b)
      PROVE  UNCHANGED op
  BY <1>7 DEF Checkout
<1>8. ASSUME NEW b \in Branches, NEW k \in Commits, StartMerge(c, b, k)
      PROVE  Replaced(c)
  <2>1. Start(c, "merge", "join", b, "target", k, None, None) /\ k \in stored
    BY <1>8 DEF StartMerge
  <2> QED  BY <2>1, StartInOrder, Literals
<1>9. ASSUME NEW b \in Branches, NEW k \in Commits, StartReset(c, b, k)
      PROVE  Replaced(c)
  <2>1. Start(c, "reset", "move", b, "target", k, None, None) /\ k \in stored
    BY <1>9 DEF StartReset
  <2> QED  BY <2>1, StartInOrder, Literals
<1> QED
  BY <1>1, <1>2, <1>3, <1>4, <1>5, <1>6, <1>7, <1>8, <1>9 DEF Begin

-----------------------------------------------------------------------------
(* Every step of a client: the store only grows, its history stays closed, *)
(* and the client's operation stays in order.                              *)

LEMMA SameStore ==
    ASSUME Inv, UNCHANGED <<stored, parents, anc>>
    PROVE  StoreGrows /\ HistoryClosed'
  BY DEF Inv, StoreGrows, HistoryClosed

LEMMA WorkInOrder ==
    ASSUME Inv, NEW c \in Clients, Work(c)
    PROVE  StoreGrows /\ HistoryClosed' /\ Replaced(c)
<1>1. CASE ResolveMergeTarget(c)
  BY <1>1, ResolveMergeTargetInOrder, SameStore DEF ResolveMergeTarget, store
<1>2. CASE ReadResetState(c)
  BY <1>2, ReadResetStateInOrder, SameStore DEF ReadResetState, store
<1>3. CASE ReadHeadCommit(c)
  BY <1>3, ReadHeadCommitInOrder, SameStore DEF ReadHeadCommit, store
<1>4. CASE UseSnapshot(c)
  BY <1>4, UseSnapshotInOrder, SameStore DEF UseSnapshot, store
<1>5. CASE StateOfUnborn(c)
  BY <1>5, StateOfUnbornInOrder, SameStore DEF StateOfUnborn, store
<1>6. CASE ReadState(c)
  BY <1>6, ReadStateInOrder, SameStore DEF ReadState, store
<1>7. CASE CacheState(c)
  BY <1>7, CacheStateInOrder, SameStore DEF CacheState, store
<1>8. CASE ReadBase(c)
  BY <1>8, ReadBaseInOrder, SameStore DEF ReadBase, store
<1>9. CASE Extend(c)
  BY <1>9, ExtendPublishes
<1>10. CASE Join(c)
  BY <1>10, JoinPublishes
<1>11. CASE FastForward(c)
  BY <1>11, FastForwardInOrder, SameStore DEF FastForward, store
<1>12. CASE CasApplied(c)
  BY <1>12, CasAppliedInOrder, SameStore DEF CasApplied
<1>13. CASE CasRefused(c)
  BY <1>13, CasRefusedInOrder, SameStore DEF CasRefused, store
<1>14. CASE Reread(c)
  BY <1>14, RereadInOrder, SameStore DEF Reread, store
<1>15. CASE WriteSnapshot(c)
  BY <1>15, WriteSnapshotInOrder, SameStore DEF WriteSnapshot, store
<1>16. CASE AppendReflog(c)
  <2>1. /\ op[c].pc # "idle" /\ Finish(c, "updated")
        /\ UNCHANGED <<stored, parents, anc>>
    BY <1>16 DEF AppendReflog, store
  <2> QED  BY <2>1, Ended, Literals, SameStore
<1>17. CASE Return(c)
  BY <1>17, Forgotten, SameStore DEF Return, store
<1> QED
  BY <1>1, <1>2, <1>3, <1>4, <1>5, <1>6, <1>7, <1>8, <1>9, <1>10, <1>11,
     <1>12, <1>13, <1>14, <1>15, <1>16, <1>17 DEF Work

LEMMA StepInOrder ==
    ASSUME Inv, NEW c \in Clients, Begin(c) \/ Work(c) \/ Crash(c)
    PROVE  StoreGrows /\ HistoryClosed' /\ (Replaced(c) \/ UNCHANGED op)
<1>1. CASE Begin(c)
  <2>1. UNCHANGED store
    BY <1>1 DEF Begin, StartCommit, StartImport, StartMutate, StartPromote,
       StartMerge, StartReset, StartBranch, StartDelete, Checkout, Start
  <2> QED  BY <1>1, <2>1, BeginInOrder, SameStore DEF store
<1>2. CASE Work(c)
  BY <1>2, WorkInOrder
<1>3. CASE Crash(c)
  BY <1>3, Forgotten, SameStore DEF Crash, store
<1> QED
  BY <1>1, <1>2, <1>3

LEMMA OpsPreserved ==
    ASSUME Inv, NEW c \in Clients, StoreGrows, Replaced(c) \/ UNCHANGED op
    PROVE  op' \in [Clients -> OpRecords] /\ OpsOK'
<1>1. op \in [Clients -> OpRecords]
  BY DEF Inv, TypeOK
<1>2. ASSUME NEW d \in Clients
      PROVE  RecOK(op[d], stored', anc')
  BY Reads DEF StoreGrows, RecOK
<1>3. CASE UNCHANGED op
  BY <1>1, <1>2, <1>3 DEF OpsOK
<1>4. CASE Replaced(c)
  <2>1. PICK rec \in OpRecords :
          op' = [op EXCEPT ![c] = rec] /\ RecOK(rec, stored', anc')
    BY <1>4 DEF Replaced
  <2>2. op' \in [Clients -> OpRecords]
    BY <1>1, <2>1
  <2>3. ASSUME NEW d \in Clients
        PROVE  RecOK(op'[d], stored', anc')
    BY <1>1, <1>2, <2>1
  <2> QED  BY <2>2, <2>3 DEF OpsOK
<1> QED
  BY <1>3, <1>4

-----------------------------------------------------------------------------
(* The refs and the snapshots only ever receive stored commits.            *)

LEMMA CasAppliedRefs ==
    ASSUME Inv, NEW c \in Clients, CasApplied(c)
    PROVE  head' \in [Branches -> Values \union {Absent}] /\ RefsStored'
<1>1. op[c].branch \in Branches /\ op[c].new \in Values
  BY Reads
<1>2. op[c].new \in stored \union {None}
  BY Reads DEF RecOK
<1>3. /\ head' = [head EXCEPT ![op[c].branch] = op[c].new]
      /\ UNCHANGED <<stored, snapshot>>
  BY DEF CasApplied, client
<1> QED
  BY <1>1, <1>2, <1>3 DEF Inv, TypeOK, RefsStored

\* A workspace remembers a value for a branch.
Remembers(w, b, v) == snapshot' = [snapshot EXCEPT ![w][b] = v]

LEMMA SnapshotRefs ==
    ASSUME Inv, NEW w \in Workspaces, NEW b \in Branches,
           NEW v \in stored \union {None},
           Remembers(w, b, v), UNCHANGED <<head, stored>>
    PROVE  /\ snapshot' \in [Workspaces -> [Branches -> Values \union {NoSnap}]]
           /\ RefsStored'
<1>1. v \in Values
  BY DEF Inv, TypeOK, Values
<1>2. /\ snapshot \in [Workspaces -> [Branches -> Values \union {NoSnap}]]
      /\ RefsStored
  BY DEF Inv, TypeOK
<1>3. snapshot' = [snapshot EXCEPT ![w] = [snapshot[w] EXCEPT ![b] = v]]
  BY <1>2 DEF Remembers
<1>4. snapshot' \in [Workspaces -> [Branches -> Values \union {NoSnap}]]
  BY <1>1, <1>2, <1>3
<1>5. ASSUME NEW x \in Workspaces, NEW d \in Branches
      PROVE  snapshot'[x][d] \in stored \union {None, NoSnap}
  BY <1>2, <1>3 DEF RefsStored
<1> QED
  BY <1>2, <1>4, <1>5 DEF RefsStored

LEMMA SameRefs ==
    ASSUME Inv, StoreGrows, UNCHANGED <<head, snapshot>>
    PROVE  RefsStored'
  BY DEF Inv, RefsStored, StoreGrows

\* The types of the refs, the snapshots and the publication of commits.
RefTypes ==
    /\ head \in [Branches -> Values \union {Absent}]
    /\ snapshot \in [Workspaces -> [Branches -> Values \union {NoSnap}]]
    /\ stored \subseteq Commits
    /\ parents \in [Commits -> SUBSET Commits]
    /\ anc \in [Commits -> SUBSET Commits]

LEMMA PublishTypes ==
    ASSUME Inv, NEW c \in Clients, NEW ps \in SUBSET stored, Publish(c, ps)
    PROVE  RefTypes' /\ UNCHANGED <<head, client, history>>
<1>1. PICK k \in Commits :
        /\ stored' = stored \union {k}
        /\ parents' = [parents EXCEPT ![k] = ps]
        /\ anc' = [anc EXCEPT ![k] = {k} \union UNION {anc[p] : p \in ps}]
        /\ UNCHANGED <<head, client, history>>
  BY DEF Publish
<1>2. ps \in SUBSET Commits
  BY DEF Inv, TypeOK
<1>3. {k} \union UNION {anc[p] : p \in ps} \in SUBSET Commits
  BY <1>2 DEF Inv, TypeOK
<1> QED
  BY <1>1, <1>2, <1>3 DEF Inv, TypeOK, RefTypes, client

LEMMA RefsPreserved ==
    ASSUME Inv, NEW c \in Clients, Begin(c) \/ Work(c) \/ Crash(c)
    PROVE  RefTypes' /\ RefsStored'
<1>1. StoreGrows
  BY StepInOrder
<1>2. ASSUME UNCHANGED <<head, snapshot, stored, parents, anc>>
      PROVE  RefTypes' /\ RefsStored'
  BY <1>1, <1>2, SameRefs DEF Inv, TypeOK, RefTypes
<1>3. CASE CasApplied(c)
  BY <1>3, CasAppliedRefs DEF CasApplied, client, Inv, TypeOK, RefTypes
<1>4. CASE CacheState(c)
  <2>1. PICK s \in stored \union {None} :
          Remembers(Workspace(c), op[c].branch, s)
    <3>1. op[c].expected \in stored \union {None}
      BY Reads DEF RecOK
    <3>2. Remembers(Workspace(c), op[c].branch, op[c].expected)
      BY <1>4 DEF CacheState, Remembers
    <3> QED  BY <3>1, <3>2
  <2> QED
    BY <1>4, <2>1, Reads, SnapshotRefs DEF CacheState, store, Inv, TypeOK, RefTypes
<1>5. CASE WriteSnapshot(c)
  <2>1. UNCHANGED <<head, stored, parents, anc>>
    BY <1>5 DEF WriteSnapshot, store
  <2>2. CASE UNCHANGED snapshot
    BY <1>2, <2>1, <2>2
  <2>3. CASE op[c].seen # Absent
    <3>1. op[c].seen \in stored \union {None}
      BY <2>3, Reads DEF RecOK
    <3>2. Remembers(Workspace(c), op[c].branch, op[c].seen)
      BY <1>5, <2>3 DEF WriteSnapshot, Remembers
    <3> QED
      BY <2>1, <3>1, <3>2, Reads, SnapshotRefs DEF Inv, TypeOK, RefTypes
  <2> QED
    BY <1>5, <2>2, <2>3 DEF WriteSnapshot
<1>6. CASE Extend(c)
  <2>1. {op[c].expected} \ {None} \in SUBSET stored
    BY Reads DEF RecOK
  <2> QED
    BY <1>1, <1>6, <2>1, PublishTypes, SameRefs DEF Extend, client
<1>7. CASE Join(c)
  <2>1. {op[c].target, op[c].source} \in SUBSET stored
    BY <1>7, Reads DEF RecOK, Join
  <2> QED
    BY <1>1, <1>7, <2>1, PublishTypes, SameRefs DEF Join, client
<1>8. CASE Begin(c)
  BY ZenonT(60), <1>2, <1>8 DEF Begin, StartCommit, StartImport, StartMutate, StartPromote,
     StartMerge, StartReset, StartBranch, StartDelete, Checkout, Start, store, client
<1>9. CASE \/ ResolveMergeTarget(c) \/ ReadResetState(c) \/ ReadHeadCommit(c)
           \/ UseSnapshot(c) \/ StateOfUnborn(c) \/ ReadState(c) \/ ReadBase(c)
           \/ FastForward(c) \/ CasRefused(c) \/ Reread(c)
  BY <1>2, <1>9 DEF ResolveMergeTarget, ReadResetState, ReadHeadCommit, UseSnapshot,
     StateOfUnborn, ReadState, ReadBase, FastForward, CasRefused, Reread, store, client
<1>10. CASE AppendReflog(c) \/ Return(c) \/ Crash(c)
  BY <1>2, <1>10 DEF AppendReflog, Return, Crash, store, client
<1> QED
  BY <1>3, <1>4, <1>5, <1>6, <1>7, <1>8, <1>9, <1>10 DEF Work

-----------------------------------------------------------------------------
(* The client state and the history.                                       *)

LogTypes ==
    /\ current \in [Workspaces -> Branches]
    /\ reflog \in [Workspaces -> [Branches -> Seq([old: Values, new: Values])]]
    /\ started \in Nat
    /\ moves \in [Branches -> Seq(Moves)]
    /\ unlogged \in [Workspaces -> [Branches -> Nat]]

LEMMA CasAppliedLogs ==
    ASSUME Inv, NEW c \in Clients, CasApplied(c)
    PROVE  LogTypes'
<1> DEFINE b == op[c].branch
           move == [old |-> op[c].expected, new |-> op[c].new,
                    by |-> Workspace(c), kind |-> op[c].kind]
<1>1. move \in Moves
  <2>1. op[c].kind \in Kinds
    BY Reads DEF OpRecords
  <2> QED  BY <2>1, Reads DEF Moves
<1>2. b \in Branches /\ moves \in [Branches -> Seq(Moves)]
  BY Reads DEF Inv, TypeOK
<1>3. moves' = [moves EXCEPT ![b] = Append(moves[b], move)]
  BY DEF CasApplied
<1> HIDE DEF b, move
<1>4. moves' \in [Branches -> Seq(Moves)]
  BY <1>1, <1>2, <1>3
<1> QED
  BY <1>4 DEF CasApplied, client, Inv, TypeOK, LogTypes

LEMMA AppendReflogLogs ==
    ASSUME Inv, NEW c \in Clients, AppendReflog(c)
    PROVE  LogTypes'
<1> DEFINE w == Workspace(c)
           b == op[c].branch
           line == [old |-> op[c].expected, new |-> op[c].new]
           Line == [old: Values, new: Values]
           Lines == Seq(Line)
<1>1. w \in Workspaces /\ b \in Branches /\ line \in Line
  BY Reads
<1>2. reflog \in [Workspaces -> [Branches -> Lines]]
  BY DEF Inv, TypeOK
<1>3. reflog' = [reflog EXCEPT ![w] = [reflog[w] EXCEPT ![b] =
                                          Append(reflog[w][b], line)]]
  BY <1>1, <1>2 DEF AppendReflog
<1>4. Append(reflog[w][b], line) \in Lines
  <2> HIDE DEF w, b, line, Line
  <2> QED  BY <1>1, <1>2
<1> HIDE DEF w, b, line, Line, Lines
<1>5. reflog' \in [Workspaces -> [Branches -> Lines]]
  BY <1>1, <1>2, <1>3, <1>4
<1> QED
  BY <1>5 DEF Line, Lines, AppendReflog, history, Inv, TypeOK, LogTypes

LEMMA CrashLogs ==
    ASSUME Inv, NEW c \in Clients, Crash(c)
    PROVE  LogTypes'
<1>1. Workspace(c) \in Workspaces /\ op[c].branch \in Branches
  BY Reads
<1>2. unlogged \in [Workspaces -> [Branches -> Nat]]
  BY DEF Inv, TypeOK
<1>3. unlogged' \in [Workspaces -> [Branches -> Nat]]
  BY <1>1, <1>2 DEF Crash
<1> QED
  BY <1>3 DEF Crash, client, Inv, TypeOK, LogTypes

LEMMA LogsPreserved ==
    ASSUME Inv, NEW c \in Clients, Begin(c) \/ Work(c) \/ Crash(c)
    PROVE  LogTypes'
<1>1. ASSUME UNCHANGED <<current, reflog, started, moves, unlogged>>
      PROVE  LogTypes'
  BY <1>1 DEF Inv, TypeOK, LogTypes
<1>2. ASSUME started' = started + 1,
             UNCHANGED <<reflog, moves, unlogged>>,
             current' \in [Workspaces -> Branches]
      PROVE  LogTypes'
  <2>1. LogTypes
    BY DEF Inv, TypeOK, LogTypes
  <2>2. started' \in Nat
    BY <1>2, <2>1 DEF LogTypes
  <2> QED  BY <1>2, <2>1, <2>2 DEF LogTypes
<1>3. CASE Begin(c)
  <2>1. current \in [Workspaces -> Branches] /\ Workspace(c) \in Workspaces
    BY Reads DEF Inv, TypeOK
  <2> QED
    BY ZenonT(60), <1>2, <1>3, <2>1 DEF Begin, StartCommit, StartImport, StartMutate,
       StartPromote, StartMerge, StartReset, StartBranch, StartDelete, Checkout,
       Start, client, history
<1>4. CASE CasApplied(c)
  BY <1>4, CasAppliedLogs
<1>5. CASE AppendReflog(c)
  BY <1>5, AppendReflogLogs
<1>6. CASE Crash(c)
  BY <1>6, CrashLogs
<1>7. CASE \/ ResolveMergeTarget(c) \/ ReadResetState(c) \/ ReadHeadCommit(c)
           \/ UseSnapshot(c) \/ StateOfUnborn(c) \/ ReadState(c) \/ ReadBase(c)
           \/ FastForward(c) \/ CasRefused(c) \/ Reread(c) \/ Return(c)
  BY <1>1, <1>7 DEF ResolveMergeTarget, ReadResetState, ReadHeadCommit, UseSnapshot,
     StateOfUnborn, ReadState, ReadBase, FastForward, CasRefused, Reread, Return,
     client, history
<1>8. CASE CacheState(c) \/ WriteSnapshot(c)
  BY <1>1, <1>8 DEF CacheState, WriteSnapshot, history
<1>9. CASE Extend(c) \/ Join(c)
  BY <1>1, <1>9 DEF Extend, Join, Publish, client, history
<1> QED
  BY <1>3, <1>4, <1>5, <1>6, <1>7, <1>8, <1>9 DEF Work

-----------------------------------------------------------------------------
(* The invariant.                                                          *)

LEMMA InvInit == Init => Inv
<1> SUFFICES ASSUME Init PROVE Inv
  OBVIOUS
<1>1. /\ DOMAIN InitParents \subseteq Commits
      /\ InitParents \in [DOMAIN InitParents -> SUBSET DOMAIN InitParents]
      /\ InitAnc \in [DOMAIN InitParents -> SUBSET DOMAIN InitParents]
      /\ InitHead \in [Branches -> DOMAIN InitParents \union {None, Absent}]
      /\ InitSnapshots \subseteq
           [Workspaces -> [Branches -> DOMAIN InitParents \union {None, NoSnap}]]
  BY InitialHistory
<1>2. Idle \in OpRecords
  BY Literals, BranchOpsAssumption DEF Idle, OpRecords
<1>3. op \in [Clients -> OpRecords] /\ OpsOK
  BY <1>2 DEF Init, OpsOK, RecOK, Idle
<1>4. RefTypes
  BY <1>1 DEF Init, RefTypes, Values
<1>5. LogTypes
  BY BranchOpsAssumption DEF Init, LogTypes
<1>6. RefsStored
  BY <1>1 DEF Init, RefsStored
<1>7. HistoryClosed
  <2>1. ASSUME NEW k \in DOMAIN InitParents
        PROVE  parents[k] = InitParents[k] /\ anc[k] = InitAnc[k]
    BY <1>1 DEF Init
  <2>2. stored = DOMAIN InitParents
    BY DEF Init
  <2>3. ASSUME NEW k \in stored
        PROVE  /\ parents[k] \subseteq stored
               /\ anc[k] = {k} \union UNION {anc[p] : p \in parents[k]}
    <3>1. parents[k] \subseteq DOMAIN InitParents
      BY <1>1, <2>1, <2>2
    <3>2. \A p \in parents[k] : anc[p] = InitAnc[p]
      BY <2>1, <3>1
    <3>3. InitAnc[k] = {k} \union UNION {InitAnc[p] : p \in InitParents[k]}
      BY <2>2, InitialHistory
    <3> QED  BY <2>1, <2>2, <3>1, <3>2, <3>3
  <2> QED  BY <2>3 DEF HistoryClosed
<1> QED
  BY <1>3, <1>4, <1>5, <1>6, <1>7 DEF Inv, TypeOK, RefTypes, LogTypes

LEMMA InvStep == Inv /\ [Next]_vars => Inv'
<1> SUFFICES ASSUME Inv, [Next]_vars PROVE Inv'
  OBVIOUS
<1>1. CASE Next
  <2>1. PICK c \in Clients : Begin(c) \/ Work(c) \/ Crash(c)
    BY <1>1 DEF Next
  <2>2. StoreGrows /\ HistoryClosed' /\ (Replaced(c) \/ UNCHANGED op)
    BY <2>1, StepInOrder
  <2>3. op' \in [Clients -> OpRecords] /\ OpsOK'
    BY <2>2, OpsPreserved
  <2>4. RefTypes' /\ RefsStored'
    BY <2>1, RefsPreserved
  <2>5. LogTypes'
    BY <2>1, LogsPreserved
  <2> QED
    BY <2>2, <2>3, <2>4, <2>5 DEF Inv, TypeOK, RefTypes, LogTypes
<1>2. CASE UNCHANGED vars
  <2>1. TypeOK'
    BY <1>2 DEF vars, Inv, TypeOK
  <2>2. HistoryClosed' /\ RefsStored' /\ OpsOK'
    BY <1>2 DEF vars, Inv, HistoryClosed, RefsStored, OpsOK
  <2> QED  BY <2>1, <2>2 DEF Inv
<1> QED
  BY <1>1, <1>2

LEMMA Invariance == Spec => []Inv
  BY InvInit, InvStep, PTL DEF Spec

-----------------------------------------------------------------------------
(* TypeOK: the refs hold commit ids or nothing, the logs hold moves, and   *)
(* each operation is at one of its steps with values of the right kind.    *)
THEOREM TypeCorrect == Spec => []TypeOK
<1>1. Inv => TypeOK
  BY DEF Inv
<1> QED
  BY <1>1, Invariance, PTL

(* Only a compare-and-set moves a ref, and it replaces what it expected.   *)
LEMMA OnlyCasMoves ==
    ASSUME Inv, [Next]_vars, NEW b \in Branches, head'[b] # head[b]
    PROVE  \E c \in Clients :
             /\ CasApplied(c)
             /\ op[c].branch = b
             /\ head'[b] = op[c].new
             /\ CommitOf(head[b]) = op[c].expected
<1>1. PICK c \in Clients : Begin(c) \/ Work(c) \/ Crash(c)
  BY DEF Next, vars
<1>2. CasApplied(c)
  BY <1>1 DEF Begin, StartCommit, StartImport, StartMutate, StartPromote,
     StartMerge, StartReset, StartBranch, StartDelete, Checkout, Start, Work, Crash,
     ResolveMergeTarget, ReadResetState, ReadHeadCommit, UseSnapshot,
     StateOfUnborn, ReadState, CacheState, ReadBase, Extend, Join, Publish,
     FastForward, CasRefused, Reread, WriteSnapshot, AppendReflog, Return, store
<1>3. head \in [Branches -> Values \union {Absent}] /\ op[c].branch \in Branches
  BY Reads DEF Inv, TypeOK
<1> QED
  BY <1>2, <1>3 DEF CasApplied

(* NonMergeMovesAdvance: whatever the snapshots say and however the steps  *)
(* of the clients interleave, a commit, import, rm, mv, promote or         *)
(* fast-forward moves a born branch to a descendant of its head.           *)
THEOREM MovesAdvance == Spec => NonMergeMovesAdvance
<1>1. ASSUME Inv, [Next]_vars, NEW b \in Branches,
             head[b] \in Commits, head'[b] # head[b]
      PROVE  \/ head'[b] \in Commits /\ head[b] \in anc[head'[b]]
             \/ \E c \in Clients : /\ op[c].pc = "cas"
                                   /\ op[c].branch = b
                                   /\ op[c].path \in {"join", "move"}
  <2>1. PICK c \in Clients : /\ CasApplied(c)
                             /\ op[c].branch = b
                             /\ head'[b] = op[c].new
                             /\ CommitOf(head[b]) = op[c].expected
    BY <1>1, OnlyCasMoves
  <2>2. op[c].expected = head[b] /\ op[c].expected # None
    BY <1>1, <2>1, BranchOpsAssumption DEF CommitOf, Values
  <2>3. op[c].pc = "cas" /\ RecOK(op[c], stored, anc) /\ op[c].path \in Paths
    BY <1>1, <2>1, Reads DEF CasApplied, OpRecords
  <2>4. CASE op[c].path \in {"extend", "ff"}
    <3>1. op[c].new \in stored /\ op[c].expected \in anc[op[c].new]
      BY <2>2, <2>3, <2>4 DEF RecOK
    <3>2. UNCHANGED anc /\ op[c].new \in Commits
      BY <1>1, <2>1, <3>1 DEF CasApplied, Inv, TypeOK
    <3> QED  BY <2>1, <2>2, <3>1, <3>2
  <2>5. CASE op[c].path \in {"join", "move"}
    BY <2>1, <2>3, <2>5
  <2> QED  BY <2>3, <2>4, <2>5 DEF Paths
<1>2. Inv /\ [Next]_vars =>
        [\A b \in Branches :
           head[b] \in Commits /\ head'[b] # head[b] =>
              \/ head'[b] \in Commits /\ head[b] \in anc[head'[b]]
              \/ \E c \in Clients : /\ op[c].pc = "cas"
                                    /\ op[c].branch = b
                                    /\ op[c].path \in {"join", "move"}]_vars
  BY <1>1
<1> QED
  BY <1>2, Invariance, PTL DEF Spec, NonMergeMovesAdvance
-----------------------------------------------------------------------------
(***************************************************************************)
(* What the moves of a branch say about what was read, cached and logged.  *)
(***************************************************************************)

\* What branch b held after its first i moves.
HeadAt(b, i) == IF i = 0 THEN InitHead[b] ELSE moves[b][i].new

HeadIsLast == \A b \in Branches : head[b] = HeadAt(b, Len(moves[b]))

\* Branch b held v, not before moment n.
HeldSince(b, v, n) == \E i \in 0..Len(moves[b]) : n <= i /\ v = HeadAt(b, i)

\* v is not older than what workspace w last moved branch b to.
Covers(w, b, v) ==
    \/ OwnMoves(w, b) = {}
    \/ \E i \in DOMAIN moves[b] :
         (\A j \in OwnMoves(w, b) : j <= i) /\ v = moves[b][i].new

\* Nobody remembers a branch that has no ref, or expects a commit on it.
AbsentUnseen ==
    \A b \in Branches :
        head[b] = Absent =>
            /\ \A w \in Workspaces : snapshot[w][b] = NoSnap
            /\ \A c \in Clients : op[c].branch = b => op[c].expected = None

\* How far an operation has come, and what it has read so far.
Flow(c) ==
    /\ op[c].moved => op[c].pc \in {"reread", "snap", "log", "done"}
    /\ op[c].pc = "log" => op[c].moved /\ op[c].kind # "branch"
    /\ op[c].pc \in {"cache", "reread", "snap"} => head[op[c].branch] # Absent
    /\ op[c].pc = "snap" => op[c].seen # Absent
    /\ op[c].pc = "cache" => HeldSince(op[c].branch, op[c].expected, 0)
    /\ op[c].pc = "snap" => HeldSince(op[c].branch, op[c].seen, 0)
    /\ op[c].pc # "idle" => op[c].since <= Len(moves[op[c].branch])
    /\ AwaitsReflog(c) =>
         \E i \in OwnMoves(Workspace(c), op[c].branch) :
            /\ moves[op[c].branch][i].old = op[c].expected
            /\ moves[op[c].branch][i].new = op[c].new

HistoryInv ==
    /\ HeadIsLast
    /\ AbsentUnseen
    /\ SnapshotWasHead
    /\ \A c \in Clients : Flow(c)

-----------------------------------------------------------------------------
\* What a process finds that has its workspace to itself.
OwnReads(c) ==
    LET w == Workspace(c)
        b == op[c].branch
    IN
    /\ op[c].kind = "mutate" =>
         /\ op[c].pc = "base" => snapshot[w][b] = op[c].expected
         /\ op[c].pc \in {"decide", "cas"} => op[c].target = op[c].expected
    /\ op[c].pc = "cache" => snapshot[w][b] = NoSnap
    /\ op[c].pc = "snap" => Covers(w, b, op[c].seen)

\* The attempts of commit --staged that have been refused.
Failed(c) == StagedRetries - op[c].tries

\* What an attempt starts from is no older than the one before it.
Late(c, v) ==
    \/ Failed(c) = 0
    \/ HeldSince(op[c].branch, v, op[c].since + Failed(c) - 1)

\* All attempts but the first start from what the one before it has seen.
Staged(c) ==
    LET b == op[c].branch
    IN
    op[c].kind = "staged" =>
        /\ op[c].pc # "idle" => op[c].tries \in 1..StagedRetries
        /\ op[c].pc = "state" => Late(c, snapshot[Workspace(c)][b])
        /\ op[c].pc = "cache" => Failed(c) = 0
        /\ op[c].pc \in {"base", "decide", "cas"} => Late(c, op[c].expected)
        /\ op[c].pc = "reread" /\ ~op[c].moved =>
             op[c].since + Failed(c) <= Len(moves[b])
        /\ op[c].pc = "snap" /\ ~op[c].moved =>
             HeldSince(b, op[c].seen, op[c].since + Failed(c))
        /\ op[c].pc = "done" /\ op[c].result = "conflict" =>
             Len(moves[b]) - op[c].since >= StagedRetries - 1

\* An update that has been applied is covered once its snapshot is written.
Covered(w, b) ==
    \/ Covers(w, b, snapshot[w][b])
    \/ unlogged[w][b] > 0
    \/ \E c \in Clients : /\ Workspace(c) = w
                          /\ op[c].branch = b
                          /\ op[c].pc \in {"reread", "snap"}
                          /\ AwaitsReflog(c)

AloneInv ==
    /\ \A c \in Clients : Alone(Workspace(c)) => OwnReads(c) /\ Staged(c)
    /\ \A w \in Workspaces, b \in Branches : Alone(w) => Covered(w, b)

-----------------------------------------------------------------------------
(* The steps of the operations, by what they do to the state above.        *)

Quiet == UNCHANGED <<head, snapshot, reflog, moves, unlogged>>

Keeps(c) ==
    /\ op'[c].kind = op[c].kind
    /\ op'[c].branch = op[c].branch
    /\ op'[c].tries = op[c].tries
    /\ op'[c].since = op[c].since
    /\ op'[c].moved = op[c].moved

Starts(c) ==
    /\ Quiet
    /\ op[c].pc = "idle"
    /\ op'[c].pc \in {"target", "state", "decide", "cas"}
    /\ op'[c].kind \in {"staged", "mutate"} => op'[c].pc = "state"
    /\ op'[c].expected \in {None, CommitOf(head[op'[c].branch])}
    /\ op'[c].tries = IF op'[c].kind = "staged" THEN StagedRetries ELSE 1
    /\ op'[c].since = Len(moves[op'[c].branch])
    /\ ~op'[c].moved

\* The second ref is read, or the new value is decided on.
Prepares(c) ==
    /\ Quiet
    /\ Keeps(c)
    /\ \/ /\ op[c].pc = "target"
          /\ op[c].kind \in {"merge", "reset", "branch"}
          /\ op'[c].pc \in {"state", "cas"}
          /\ op'[c].expected \in {op[c].expected, CommitOf(head[op[c].branch])}
       \/ /\ op[c].pc = "decide"
          /\ op'[c].pc = "cas"
          /\ op'[c].expected = op[c].expected
          /\ op'[c].target = op[c].target

ReadsState(c) ==
    LET s == snapshot[Workspace(c)][op[c].branch]
    IN
    /\ Quiet
    /\ Keeps(c)
    /\ op[c].pc = "state"
    /\ \/ /\ s # NoSnap
          /\ op'[c].pc = IF op[c].kind = "mutate" THEN "base" ELSE "decide"
          /\ op'[c].expected = s
       \/ /\ s = NoSnap
          /\ op[c].kind # "mutate"
          /\ op'[c].pc = "decide"
          /\ op'[c].expected = None
          /\ head[op[c].branch] = Absent
       \/ /\ s = NoSnap
          /\ op'[c].pc = "cache"
          /\ op'[c].expected = head[op[c].branch]
          /\ head[op[c].branch] # Absent

Caches(c) ==
    /\ op[c].pc = "cache"
    /\ Keeps(c)
    /\ op'[c].pc = IF op[c].kind = "mutate" THEN "base" ELSE "decide"
    /\ op'[c].expected = op[c].expected
    /\ snapshot' = [snapshot EXCEPT ![Workspace(c)][op[c].branch] = op[c].expected]
    /\ UNCHANGED <<head, reflog, moves, unlogged>>

ReadsBase(c) ==
    /\ Quiet
    /\ Keeps(c)
    /\ op[c].pc = "base"
    /\ op'[c].pc = "decide"
    /\ op'[c].expected = op[c].expected
    /\ op'[c].target = snapshot[Workspace(c)][op[c].branch]

\* It ends before the ref has moved, for another reason than a conflict.
Ends(c) ==
    /\ Quiet
    /\ Keeps(c)
    /\ op[c].pc \in {"target", "state", "base", "decide", "cas"}
    /\ op'[c].pc = "done"
    /\ op'[c].result # "conflict"
    /\ op'[c].expected = op[c].expected

Applies(c) ==
    LET b == op[c].branch
    IN
    /\ op[c].pc = "cas"
    /\ CommitOf(head[b]) = op[c].expected
    /\ op' = [op EXCEPT ![c] = [op[c] EXCEPT !.pc = "reread", !.moved = TRUE]]
    /\ head' = [head EXCEPT ![b] = op[c].new]
    /\ moves' = [moves EXCEPT ![b] =
                    Append(@, [old |-> op[c].expected, new |-> op[c].new,
                               by |-> Workspace(c), kind |-> op[c].kind])]
    /\ UNCHANGED <<snapshot, reflog, unlogged>>

\* The update is refused, or what the ref holds after it is read.
Learns(c) ==
    /\ Quiet
    /\ \/ /\ op[c].pc = "cas"
          /\ op[c].kind # "branch"
          /\ CommitOf(head[op[c].branch]) # op[c].expected
          /\ op' = [op EXCEPT ![c] = [op[c] EXCEPT !.pc = "reread"]]
       \/ /\ op[c].pc = "reread"
          /\ op' = [op EXCEPT ![c] = [op[c] EXCEPT !.pc = "snap",
                                          !.seen = head[op[c].branch]]]

Snaps(c) ==
    LET o == op[c]
    IN
    /\ o.pc = "snap"
    /\ snapshot' = IF o.seen = Absent
                   THEN snapshot
                   ELSE [snapshot EXCEPT ![Workspace(c)][o.branch] = o.seen]
    /\ \/ /\ o.moved /\ o.kind = "branch"
          /\ op' = [op EXCEPT ![c] = [o EXCEPT !.pc = "done", !.result = "updated"]]
       \/ /\ o.moved /\ o.kind # "branch"
          /\ op' = [op EXCEPT ![c] = [o EXCEPT !.pc = "log"]]
       \/ /\ ~o.moved /\ o.tries > 1
          /\ op' = [op EXCEPT ![c] = [o EXCEPT !.pc = "state", !.tries = o.tries - 1]]
       \/ /\ ~o.moved /\ ~(o.tries > 1)
          /\ op' = [op EXCEPT ![c] = [o EXCEPT !.pc = "done", !.result = "conflict"]]
    /\ UNCHANGED <<head, reflog, moves, unlogged>>

Logs(c) ==
    LET w == Workspace(c)
        b == op[c].branch
    IN
    /\ op[c].pc = "log"
    /\ reflog' = [reflog EXCEPT ![w][b] =
                    Append(@, [old |-> op[c].expected, new |-> op[c].new])]
    /\ op' = [op EXCEPT ![c] = [op[c] EXCEPT !.pc = "done", !.result = "updated"]]
    /\ UNCHANGED <<head, snapshot, moves, unlogged>>

\* The operation returns or its process dies.
Forgets(c) ==
    /\ op[c].pc # "idle"
    /\ op' = [op EXCEPT ![c] = Idle]
    /\ unlogged' = IF AwaitsReflog(c)
                   THEN [unlogged EXCEPT ![Workspace(c)][op[c].branch] = @ + 1]
                   ELSE unlogged
    /\ UNCHANGED <<head, snapshot, reflog, moves>>

Effects(c) ==
    \/ Starts(c) \/ Prepares(c) \/ ReadsState(c) \/ Caches(c) \/ ReadsBase(c)
    \/ Ends(c) \/ Applies(c) \/ Learns(c) \/ Snaps(c) \/ Logs(c) \/ Forgets(c)

OnlyOp(c) ==
    /\ op' \in [Clients -> OpRecords]
    /\ \A d \in Clients : d # c => op'[d] = op[d]

LEMMA StartEffects ==
    ASSUME Inv, NEW c \in Clients, Begin(c)
    PROVE  Starts(c) \/ (Quiet /\ UNCHANGED op)
<1>1. ASSUME NEW kind, NEW path, NEW b \in Branches, NEW pc,
             NEW source, NEW expected, NEW new,
             Start(c, kind, path, b, pc, source, expected, new),
             pc \in {"target", "state", "decide", "cas"},
             kind \in {"staged", "mutate"} => pc = "state",
             expected \in {None, CommitOf(head[b])}
      PROVE  Starts(c)
  <2> DEFINE rec == [Idle EXCEPT !.pc = pc, !.kind = kind, !.path = path,
                             !.branch = b, !.source = source,
                             !.expected = expected, !.new = new,
                             !.tries = IF kind = "staged" THEN StagedRetries
                                                          ELSE 1,
                             !.since = Len(moves[b])]
  <2>1. op' = [op EXCEPT ![c] = rec] /\ Quiet /\ op[c].pc = "idle"
    BY <1>1 DEF Start, store, client, history, Quiet
  <2>2. op'[c] = rec
    BY <2>1 DEF Inv, TypeOK
  <2>3. /\ rec.pc = pc /\ rec.kind = kind /\ rec.branch = b /\ ~rec.moved
        /\ rec.expected = expected
        /\ rec.tries = IF kind = "staged" THEN StagedRetries ELSE 1
        /\ rec.since = Len(moves[b])
    BY DEF Idle
  <2> HIDE DEF rec
  <2> QED
    BY <1>1, <2>1, <2>2, <2>3 DEF Starts
<1>2. CASE StartCommit(c)
  BY <1>1, <1>2, Reads DEF StartCommit
<1>3. ASSUME NEW b \in Branches,
             \/ StartImport(c, b) \/ StartMutate(c, b) \/ StartPromote(c, b)
             \/ StartBranch(c, b) \/ StartDelete(c, b)
      PROVE  Starts(c)
  <2>1. head[b] \in Commits => CommitOf(head[b]) = head[b]
    BY BranchOpsAssumption DEF CommitOf, Values
  <2>2. CommitOf(head[b]) # None => CommitOf(head[b]) = head[b]
    BY DEF CommitOf
  <2> QED
    BY <1>1, <1>3, <2>1, <2>2 DEF StartImport, StartMutate, StartPromote, StartBranch,
       StartDelete
<1>4. ASSUME NEW b \in Branches, NEW k \in Commits,
             StartMerge(c, b, k) \/ StartReset(c, b, k)
      PROVE  Starts(c)
  BY <1>1, <1>4 DEF StartMerge, StartReset
<1>5. ASSUME NEW b \in Branches, Checkout(c, b)
      PROVE  Quiet /\ UNCHANGED op
  BY <1>5 DEF Checkout, store, history, Quiet
<1> QED
  BY <1>2, <1>3, <1>4, <1>5 DEF Begin

LEMMA WorkEffects ==
    ASSUME Inv, NEW c \in Clients, Work(c)
    PROVE  Effects(c)
<1>0. op \in [Clients -> OpRecords] /\ op[c] \in OpRecords /\ op[c].branch \in Branches
  BY Reads DEF Inv, TypeOK
<1>1. ASSUME NEW result, result # "conflict", Finish(c, result), Quiet,
             op[c].pc \in {"target", "state", "base", "decide", "cas"}
      PROVE  Ends(c)
  BY <1>0, <1>1 DEF Finish, Ends, Keeps, OpRecords
<1>2. CASE ResolveMergeTarget(c)
  <2>1. Quiet /\ op[c].pc = "target" /\ op[c].kind = "merge"
    BY <1>2 DEF ResolveMergeTarget, store, client, history, Quiet
  <2>2. CASE Finish(c, "error") \/ Finish(c, "unchanged")
    BY <1>1, <2>1, <2>2 DEF Effects
  <2>3. CASE \/ op' = [op EXCEPT ![c].pc = "state", ![c].path = "ff"]
             \/ op' = [op EXCEPT ![c].pc = "state", ![c].target = head[op[c].branch]]
    BY <1>0, <2>1, <2>3 DEF Effects, Prepares, Keeps, OpRecords
  <2> QED
    BY <1>2, <2>2, <2>3 DEF ResolveMergeTarget
<1>3. CASE ReadResetState(c)
  <2>1. Quiet /\ op[c].pc = "target" /\ op[c].kind = "reset"
    BY <1>3 DEF ReadResetState, store, client, history, Quiet
  <2>2. CASE Finish(c, "unchanged")
    BY <1>1, <2>1, <2>2 DEF Effects
  <2>3. CASE op' = [op EXCEPT ![c].pc = "cas",
                              ![c].expected = CommitOf(head[op[c].branch]),
                              ![c].new = op[c].source]
    BY <1>0, <2>1, <2>3 DEF Effects, Prepares, Keeps, OpRecords
  <2> QED
    BY <1>3, <2>2, <2>3 DEF ReadResetState
<1>4. CASE ReadHeadCommit(c)
  BY <1>0, <1>4 DEF ReadHeadCommit, store, client, history, Quiet, Effects, Prepares,
                   Keeps, OpRecords
<1>5. CASE UseSnapshot(c)
  BY <1>0, <1>5 DEF UseSnapshot, store, client, history, Quiet, Effects, ReadsState,
                   Keeps, OpRecords, AfterState
<1>6. CASE StateOfUnborn(c)
  <2>1. Quiet /\ op[c].pc = "state"
    BY <1>6 DEF StateOfUnborn, store, client, history, Quiet
  <2>2. CASE Finish(c, "error")
    BY <1>1, <2>1, <2>2 DEF Effects
  <2>3. CASE op[c].kind \in UnbornAllowed
    BY <1>0, <1>6, <2>1, <2>3 DEF StateOfUnborn, UnbornAllowed, Effects, ReadsState,
                                 Keeps, OpRecords
  <2> QED
    BY <1>6, <2>2, <2>3 DEF StateOfUnborn
<1>7. CASE ReadState(c)
  BY <1>0, <1>7 DEF ReadState, store, client, history, Quiet, Effects, ReadsState,
                   Keeps, OpRecords
<1>8. CASE CacheState(c)
  BY <1>0, <1>8 DEF CacheState, store, history, Effects, Caches, Keeps, OpRecords,
                   AfterState
<1>9. CASE ReadBase(c)
  <2>1. Quiet /\ op[c].pc = "base"
    BY <1>9 DEF ReadBase, store, client, history, Quiet
  <2>2. CASE Finish(c, "error")
    BY <1>1, <2>1, <2>2 DEF Effects
  <2>3. CASE op' = [op EXCEPT ![c].pc = "decide",
                              ![c].target = snapshot[Workspace(c)][op[c].branch]]
    BY <1>0, <2>1, <2>3 DEF Effects, ReadsBase, Keeps, OpRecords
  <2> QED
    BY <1>9, <2>2, <2>3 DEF ReadBase
<1>10. CASE Extend(c) \/ Join(c)
  <2>1. PICK k \in Commits : op' = [op EXCEPT ![c].pc = "cas", ![c].new = k]
    BY <1>10 DEF Extend, Join, Publish
  <2>2. Quiet /\ op[c].pc = "decide"
    BY <1>10 DEF Extend, Join, Publish, client, history, Quiet
  <2> QED
    BY <1>0, <2>1, <2>2 DEF Effects, Prepares, Keeps, OpRecords
<1>11. CASE FastForward(c)
  <2>1. Quiet /\ op[c].pc = "decide"
    BY <1>11 DEF FastForward, store, client, history, Quiet
  <2>2. CASE Finish(c, "updated") \/ Finish(c, "nonff")
    BY <1>1, <2>1, <2>2 DEF Effects
  <2>3. CASE op' = [op EXCEPT ![c].pc = "cas", ![c].new = op[c].source]
    BY <1>0, <2>1, <2>3 DEF Effects, Prepares, Keeps, OpRecords
  <2> QED
    BY <1>11, <2>2, <2>3 DEF FastForward
<1>12. CASE CasApplied(c)
  BY <1>0, <1>12 DEF CasApplied, client, Effects, Applies
<1>13. CASE CasRefused(c)
  <2>1. Quiet /\ op[c].pc = "cas"
    BY <1>13 DEF CasRefused, store, client, history, Quiet
  <2>2. CASE Finish(c, "error")
    BY <1>1, <2>1, <2>2 DEF Effects
  <2>3. CASE op[c].kind # "branch"
    BY <1>0, <1>13, <2>1, <2>3 DEF CasRefused, Effects, Learns
  <2> QED
    BY <1>13, <2>2, <2>3 DEF CasRefused
<1>14. CASE Reread(c)
  BY <1>0, <1>14 DEF Reread, store, client, history, Quiet, Effects, Learns
<1>15. CASE WriteSnapshot(c)
  BY <1>0, <1>15 DEF WriteSnapshot, AfterSnapshot, Finish, store, history, Effects, Snaps
<1>16. CASE AppendReflog(c)
  BY <1>0, <1>16 DEF AppendReflog, Finish, store, history, Effects, Logs
<1>17. CASE Return(c)
  BY <1>17 DEF Return, AwaitsReflog, store, client, history, Effects, Forgets
<1> QED
  BY <1>2, <1>3, <1>4, <1>5, <1>6, <1>7, <1>8, <1>9, <1>10, <1>11, <1>12, <1>13, <1>14,
     <1>15, <1>16, <1>17 DEF Work

(* Every step of a client has one of these effects, on its own operation.  *)
LEMMA StepEffects ==
    ASSUME Inv, NEW c \in Clients, Begin(c) \/ Work(c) \/ Crash(c)
    PROVE  /\ OnlyOp(c)
           /\ Effects(c) \/ (Quiet /\ UNCHANGED op)
<1>1. OnlyOp(c)
  <2>1. op' \in [Clients -> OpRecords]
    BY StepInOrder, OpsPreserved
  <2>2. Replaced(c) \/ UNCHANGED op
    BY StepInOrder
  <2>3. op \in [Clients -> OpRecords]
    BY DEF Inv, TypeOK
  <2> QED
    BY <2>1, <2>2, <2>3 DEF OnlyOp, Replaced
<1>2. CASE Begin(c)
  BY <1>1, <1>2, StartEffects DEF Effects
<1>3. CASE Work(c)
  BY <1>1, <1>3, WorkEffects
<1>4. CASE Crash(c)
  <2>1. Forgets(c)
    BY <1>4 DEF Crash, client, store, Forgets
  <2> QED
    BY <1>1, <2>1 DEF Effects
<1> QED
  BY <1>2, <1>3, <1>4

-----------------------------------------------------------------------------
(* The moves of a branch only grow, and its head follows them.             *)

LEMMA MovesTyped ==
    ASSUME Inv, NEW b \in Branches
    PROVE  /\ moves[b] \in Seq(Moves)
           /\ Len(moves[b]) \in Nat
           /\ DOMAIN moves[b] = 1..Len(moves[b])
           /\ \A i \in 1..Len(moves[b]) :
                /\ moves[b][i] \in Moves
                /\ moves[b][i].new \in Values
                /\ moves[b][i].new # Absent
                /\ moves[b][i].new # NoSnap
<1>1. moves[b] \in Seq(Moves)
  BY DEF Inv, TypeOK
<1>2. \A i \in 1..Len(moves[b]) : moves[b][i] \in Moves
  BY <1>1
<1>3. \A m \in Moves : m.new \in Values /\ m.new # Absent /\ m.new # NoSnap
  BY BranchOpsAssumption DEF Moves, Values
<1> QED
  BY <1>1, <1>2, <1>3

\* The move that c adds to its branch.
MoveOf(c) == [old |-> op[c].expected, new |-> op[c].new,
              by |-> Workspace(c), kind |-> op[c].kind]

LEMMA AppliedMoves ==
    ASSUME Inv, NEW c \in Clients, Applies(c), NEW b \in Branches
    PROVE  /\ b # op[c].branch => moves'[b] = moves[b] /\ head'[b] = head[b]
           /\ b = op[c].branch =>
                /\ Len(moves'[b]) = Len(moves[b]) + 1
                /\ DOMAIN moves'[b] = 1..(Len(moves[b]) + 1)
                /\ \A i \in 1..Len(moves[b]) : moves'[b][i] = moves[b][i]
                /\ moves'[b][Len(moves[b]) + 1] = MoveOf(c)
                /\ head'[b] = op[c].new
                /\ head'[b] # Absent
<1>1. moves'[b] = IF b = op[c].branch THEN Append(moves[b], MoveOf(c)) ELSE moves[b]
  BY DEF Applies, MoveOf, Inv, TypeOK
<1>2. head'[b] = IF b = op[c].branch THEN op[c].new ELSE head[b]
  BY DEF Applies, Inv, TypeOK
<1>3. MoveOf(c) \in Moves
  BY Reads DEF MoveOf, Moves, OpRecords
<1>4. op[c].new # Absent
  BY Reads, BranchOpsAssumption
<1>5. moves[b] \in Seq(Moves)
  BY MovesTyped
<1> HIDE DEF MoveOf
<1> QED
  BY <1>1, <1>2, <1>3, <1>4, <1>5

\* Every step keeps the moments a branch has been through.
Grows(b) ==
    /\ Len(moves'[b]) \in Nat
    /\ Len(moves[b]) <= Len(moves'[b])
    /\ \A i \in 0..Len(moves[b]) : HeadAt(b, i)' = HeadAt(b, i)
    /\ \A i \in 1..Len(moves[b]) : moves'[b][i] = moves[b][i]
    /\ DOMAIN moves'[b] = 1..Len(moves'[b])
    /\ head'[b] = Absent => head[b] = Absent

LEMMA MovesGrow ==
    ASSUME Inv, NEW c \in Clients, Effects(c) \/ (Quiet /\ UNCHANGED op),
           NEW b \in Branches
    PROVE  Grows(b)
<1>0. Len(moves[b]) \in Nat /\ DOMAIN moves[b] = 1..Len(moves[b])
  BY MovesTyped
<1>1. CASE UNCHANGED <<head, moves>>
  BY <1>0, <1>1 DEF Grows, HeadAt
<1>2. CASE Applies(c)
  BY <1>0, <1>2, AppliedMoves DEF Grows, HeadAt
<1> QED
  BY <1>1, <1>2 DEF Effects, Starts, Prepares, ReadsState, Caches, ReadsBase, Ends,
     Learns, Snaps, Logs, Forgets, Quiet

LEMMA HeldStays ==
    ASSUME Inv, NEW b \in Branches, Grows(b), NEW v, NEW n, HeldSince(b, v, n)
    PROVE  HeldSince(b, v, n)'
<1>1. Len(moves[b]) \in Nat
  BY MovesTyped
<1> QED
  BY <1>1 DEF HeldSince, Grows

LEMMA HeadFollows ==
    ASSUME Inv, HeadIsLast, NEW c \in Clients,
           Effects(c) \/ (Quiet /\ UNCHANGED op)
    PROVE  HeadIsLast'
<1> SUFFICES ASSUME NEW b \in Branches
             PROVE  head'[b] = HeadAt(b, Len(moves[b]))'
  BY DEF HeadIsLast
<1>0. Len(moves[b]) \in Nat /\ head[b] = HeadAt(b, Len(moves[b]))
  BY MovesTyped DEF HeadIsLast
<1>1. CASE UNCHANGED <<head, moves>>
  BY <1>0, <1>1 DEF HeadAt
<1>2. CASE Applies(c)
  <2>1. CASE b # op[c].branch
    BY <1>0, <1>2, <2>1, AppliedMoves DEF HeadAt
  <2>2. CASE b = op[c].branch
    <3>1. /\ Len(moves'[b]) = Len(moves[b]) + 1
          /\ moves'[b][Len(moves[b]) + 1] = MoveOf(c)
          /\ head'[b] = op[c].new
      BY <1>2, <2>2, AppliedMoves
    <3>2. MoveOf(c).new = op[c].new
      BY DEF MoveOf
    <3>3. Len(moves'[b]) # 0
      BY <1>0, <3>1
    <3> QED
      BY <3>1, <3>2, <3>3 DEF HeadAt
  <2> QED
    BY <2>1, <2>2
<1> QED
  BY <1>1, <1>2 DEF Effects, Starts, Prepares, ReadsState, Caches, ReadsBase, Ends,
     Learns, Snaps, Logs, Forgets, Quiet

(* What a branch holds now is what it has held since now.                  *)
LEMMA HeadHeld ==
    ASSUME Inv, HeadIsLast, NEW b \in Branches
    PROVE  \A n \in Int : n <= Len(moves[b]) => HeldSince(b, head[b], n)
<1>1. Len(moves[b]) \in Nat /\ head[b] = HeadAt(b, Len(moves[b]))
  BY MovesTyped DEF HeadIsLast
<1> QED
  BY <1>1 DEF HeldSince

-----------------------------------------------------------------------------
(* What the snapshots and the operations hold was once the head.           *)

LEMMA OwnMovesGrow ==
    ASSUME Inv, NEW w, NEW b \in Branches, Grows(b)
    PROVE  \A i \in OwnMoves(w, b) :
             /\ i \in DOMAIN moves[b] /\ i \in OwnMoves(w, b)'
             /\ moves'[b][i] = moves[b][i]
<1>1. Len(moves[b]) \in Nat /\ DOMAIN moves[b] = 1..Len(moves[b])
  BY MovesTyped
<1> QED
  BY <1>1 DEF Grows, OwnMoves

LEMMA HeldWas ==
    ASSUME Inv, NEW b \in Branches, NEW v, HeldSince(b, v, 0)
    PROVE  \/ v = InitHead[b]
           \/ \E i \in DOMAIN moves[b] : v = moves[b][i].new
  BY MovesTyped DEF HeldSince, HeadAt

LEMMA SnapshotUpdate ==
    ASSUME Inv, NEW c \in Clients, NEW v,
           snapshot' = [snapshot EXCEPT ![Workspace(c)][op[c].branch] = v]
    PROVE  \A w \in Workspaces, b \in Branches :
             snapshot'[w][b] = IF w = Workspace(c) /\ b = op[c].branch
                               THEN v ELSE snapshot[w][b]
<1>1. snapshot \in [Workspaces -> [Branches -> Values \union {NoSnap}]]
  BY DEF Inv, TypeOK
<1>2. Workspace(c) \in Workspaces /\ op[c].branch \in Branches
  BY Reads
<1> QED
  BY <1>1, <1>2

\* After a step a snapshot is what it was, or a former head of its branch.
LEMMA SnapshotEffects ==
    ASSUME Inv, HistoryInv, NEW c \in Clients,
           Effects(c) \/ (Quiet /\ UNCHANGED op)
    PROVE  \A w \in Workspaces, b \in Branches :
             snapshot'[w][b] # snapshot[w][b] =>
                /\ HeldSince(b, snapshot'[w][b], 0)
                /\ head[b] # Absent
                /\ UNCHANGED <<head, moves>>
<1>0. Flow(c)
  BY DEF HistoryInv
<1>1. CASE Caches(c)
  <2>1. /\ HeldSince(op[c].branch, op[c].expected, 0)
        /\ head[op[c].branch] # Absent
        /\ UNCHANGED <<head, moves>>
        /\ snapshot' = [snapshot EXCEPT ![Workspace(c)][op[c].branch] = op[c].expected]
    BY <1>0, <1>1 DEF Caches, Flow
  <2> QED
    BY <2>1, SnapshotUpdate
<1>2. CASE Snaps(c)
  <2>1. /\ HeldSince(op[c].branch, op[c].seen, 0)
        /\ head[op[c].branch] # Absent
        /\ UNCHANGED <<head, moves>>
        /\ snapshot' = [snapshot EXCEPT ![Workspace(c)][op[c].branch] = op[c].seen]
    BY <1>0, <1>2 DEF Snaps, Flow
  <2> QED
    BY <2>1, SnapshotUpdate
<1>3. CASE UNCHANGED snapshot
  BY <1>3
<1> QED
  BY <1>1, <1>2, <1>3 DEF Effects, Starts, Prepares, ReadsState, ReadsBase, Ends,
     Applies, Learns, Logs, Forgets, Quiet

LEMMA SnapshotsStep ==
    ASSUME Inv, HistoryInv, NEW c \in Clients,
           Effects(c) \/ (Quiet /\ UNCHANGED op)
    PROVE  SnapshotWasHead'
<1> SUFFICES ASSUME NEW w \in Workspaces, NEW b \in Branches
             PROVE  \/ snapshot'[w][b] = InitHead[b]
                    \/ \E s \in InitSnapshots : snapshot'[w][b] = s[w][b]
                    \/ \E i \in DOMAIN moves'[b] : snapshot'[w][b] = moves'[b][i].new
  BY DEF SnapshotWasHead
<1>1. \A i \in DOMAIN moves[b] : i \in DOMAIN moves'[b] /\ moves'[b][i] = moves[b][i]
  BY MovesGrow, MovesTyped DEF Grows
<1>2. CASE snapshot'[w][b] = snapshot[w][b]
  <2>1. \/ snapshot[w][b] = InitHead[b]
        \/ \E s \in InitSnapshots : snapshot[w][b] = s[w][b]
        \/ \E i \in DOMAIN moves[b] : snapshot[w][b] = moves[b][i].new
    BY DEF HistoryInv, SnapshotWasHead
  <2> QED
    BY <1>1, <1>2, <2>1
<1>3. CASE snapshot'[w][b] # snapshot[w][b]
  <2>1. HeldSince(b, snapshot'[w][b], 0)
    BY <1>3, SnapshotEffects
  <2> QED
    BY <1>1, <2>1, HeldWas
<1> QED
  BY <1>2, <1>3

\* Once it has its expected value an operation keeps it.
LEMMA LateKeeps ==
    ASSUME Inv, NEW c \in Clients,
           \/ Caches(c) \/ ReadsBase(c) \/ Ends(c) \/ Applies(c) \/ Learns(c)
           \/ Snaps(c) \/ Logs(c) \/ UNCHANGED op
    PROVE  op'[c].branch = op[c].branch /\ op'[c].expected = op[c].expected
<1>0. op[c] \in OpRecords /\ op \in [Clients -> OpRecords]
  BY Reads DEF Inv, TypeOK
<1>1. CASE Caches(c) \/ ReadsBase(c) \/ Ends(c)
  BY <1>1 DEF Caches, ReadsBase, Ends, Keeps
<1>2. CASE Applies(c)
  BY <1>0, <1>2 DEF Applies, OpRecords
<1>3. CASE Learns(c)
  BY ZenonT(60), <1>0, <1>3 DEF Learns, OpRecords
<1>4. CASE Snaps(c)
  BY ZenonT(60), <1>0, <1>4 DEF Snaps, OpRecords
<1>5. CASE Logs(c)
  BY <1>0, <1>5 DEF Logs, OpRecords
<1> QED
  BY <1>1, <1>2, <1>3, <1>4, <1>5

LEMMA AbsentStep ==
    ASSUME Inv, HistoryInv, NEW c \in Clients, OnlyOp(c),
           Effects(c) \/ (Quiet /\ UNCHANGED op)
    PROVE  AbsentUnseen'
<1> SUFFICES ASSUME NEW b \in Branches, head'[b] = Absent
             PROVE  /\ \A w \in Workspaces : snapshot'[w][b] = NoSnap
                    /\ \A d \in Clients : op'[d].branch = b => op'[d].expected = None
  BY DEF AbsentUnseen
<1>1. /\ head[b] = Absent
      /\ \A w \in Workspaces : snapshot[w][b] = NoSnap
      /\ \A d \in Clients : op[d].branch = b => op[d].expected = None
  BY MovesGrow DEF Grows, HistoryInv, AbsentUnseen
<1>2. \A w \in Workspaces : snapshot'[w][b] = NoSnap
  BY <1>1, SnapshotEffects
<1>3. ASSUME op'[c].branch = b PROVE op'[c].expected = None
  <2>0. op[c] \in OpRecords /\ op \in [Clients -> OpRecords]
    BY Reads DEF Inv, TypeOK
  <2>1. CommitOf(head[b]) = None
    BY <1>1 DEF CommitOf
  <2>2. CASE Starts(c)
    BY <1>1, <1>3, <2>1, <2>2 DEF Starts
  <2>3. CASE Prepares(c)
    BY <1>1, <1>3, <2>1, <2>3 DEF Prepares, Keeps
  <2>4. CASE ReadsState(c)
    BY <1>1, <1>3, <2>4, Reads DEF ReadsState, Keeps
  <2>5. CASE Forgets(c)
    BY <2>0, <2>5 DEF Forgets, Idle
  <2> QED
    BY <1>1, <1>3, <2>2, <2>3, <2>4, <2>5, LateKeeps DEF Effects
<1> QED
  BY <1>1, <1>2, <1>3 DEF OnlyOp

\* A step of c leaves another client's operation where it was.
LEMMA FlowOfOthers ==
    ASSUME Inv, HistoryInv, NEW c \in Clients, OnlyOp(c),
           Effects(c) \/ (Quiet /\ UNCHANGED op),
           NEW d \in Clients, op'[d] = op[d]
    PROVE  Flow(d)'
<1>z. PICK b \in Branches : b = op[d].branch
  BY Reads
<1>0. b \in Branches /\ Grows(b) /\ Len(moves[b]) \in Nat /\ Flow(d)
  BY MovesGrow, MovesTyped DEF HistoryInv
<1>1. op[d].since \in Nat /\ op'[d].branch = b
  BY <1>z, Reads DEF OpRecords
<1>2. op'[d].pc \in {"cache", "reread", "snap"} => head'[b] # Absent
  BY <1>z, <1>0 DEF Flow, Grows
<1>3. op'[d].pc = "cache" => HeldSince(op[d].branch, op[d].expected, 0)'
  <2>1. PICK v : v = op[d].expected
    OBVIOUS
  <2>2. op[d].pc = "cache" => HeldSince(b, v, 0)
    BY <1>z, <1>0, <2>1 DEF Flow
  <2>3. op[d].pc = "cache" => HeldSince(b, v, 0)'
    BY <1>0, <2>2, HeldStays
  <2>4. HeldSince(b, v, 0)' => HeldSince(op[d].branch, op[d].expected, 0)'
    BY <1>z, <2>1
  <2> QED
    BY <2>3, <2>4
<1>4. op'[d].pc = "snap" => HeldSince(op[d].branch, op[d].seen, 0)'
  <2>1. PICK v : v = op[d].seen
    OBVIOUS
  <2>2. op[d].pc = "snap" => HeldSince(b, v, 0)
    BY <1>z, <1>0, <2>1 DEF Flow
  <2>3. op[d].pc = "snap" => HeldSince(b, v, 0)'
    BY <1>0, <2>2, HeldStays
  <2>4. HeldSince(b, v, 0)' => HeldSince(op[d].branch, op[d].seen, 0)'
    BY <1>z, <2>1
  <2> QED
    BY <2>3, <2>4
<1>5. op'[d].pc # "idle" => op'[d].since <= Len(moves'[b])
  BY <1>z, <1>0, <1>1 DEF Flow, Grows
<1>6. AwaitsReflog(d)' =>
        \E i \in OwnMoves(Workspace(d), b)' :
           moves'[b][i].old = op'[d].expected /\ moves'[b][i].new = op'[d].new
  <2>1. AwaitsReflog(d)' <=> AwaitsReflog(d)
    BY DEF AwaitsReflog
  <2>2. AwaitsReflog(d) =>
          \E i \in OwnMoves(Workspace(d), b) :
             moves[b][i].old = op[d].expected /\ moves[b][i].new = op[d].new
    BY <1>z, <1>0 DEF Flow
  <2>3. \A i \in OwnMoves(Workspace(d), b) :
          i \in OwnMoves(Workspace(d), b)' /\ moves'[b][i] = moves[b][i]
    BY <1>0, OwnMovesGrow
  <2> QED
    BY <2>1, <2>2, <2>3
<1> QED
  BY <1>z, <1>0, <1>1, <1>2, <1>3, <1>4, <1>5, <1>6 DEF Flow

\* The steps after the compare-and-set, field by field.
LateKeeping(c) ==
    /\ op'[c].kind = op[c].kind
    /\ op'[c].branch = op[c].branch
    /\ op'[c].since = op[c].since
    /\ op'[c].moved = op[c].moved
    /\ op'[c].expected = op[c].expected
    /\ op'[c].new = op[c].new

LEMMA LearnsFields ==
    ASSUME Inv, NEW c \in Clients, Learns(c)
    PROVE  /\ LateKeeping(c)
           /\ op'[c].tries = op[c].tries
           /\ \/ /\ op[c].pc = "cas" /\ op'[c].pc = "reread"
                 /\ CommitOf(head[op[c].branch]) # op[c].expected
              \/ /\ op[c].pc = "reread" /\ op'[c].pc = "snap"
                 /\ op'[c].seen = head[op[c].branch]
<1>0. op[c] \in OpRecords /\ op \in [Clients -> OpRecords]
  BY Reads DEF Inv, TypeOK
<1>1. CASE op[c].pc = "cas"
  <2>1. /\ op' = [op EXCEPT ![c] = [op[c] EXCEPT !.pc = "reread"]]
        /\ CommitOf(head[op[c].branch]) # op[c].expected
    BY <1>1 DEF Learns
  <2> QED
    BY <1>0, <1>1, <2>1 DEF OpRecords, LateKeeping
<1>2. CASE op[c].pc = "reread"
  <2>1. op' = [op EXCEPT ![c] = [op[c] EXCEPT !.pc = "snap",
                                              !.seen = head[op[c].branch]]]
    BY <1>2 DEF Learns
  <2> QED
    BY <1>0, <1>2, <2>1 DEF OpRecords, LateKeeping
<1>3. op[c].pc \in {"cas", "reread"}
  BY DEF Learns
<1> QED
  BY <1>1, <1>2, <1>3

LEMMA SnapsFields ==
    ASSUME Inv, NEW c \in Clients, Snaps(c)
    PROVE  /\ LateKeeping(c)
           /\ op[c].pc = "snap"
           /\ \/ /\ op[c].moved
                 /\ op'[c].pc = IF op[c].kind = "branch" THEN "done" ELSE "log"
                 /\ op'[c].pc = "done" => op'[c].result = "updated"
                 /\ op'[c].tries = op[c].tries
              \/ /\ ~op[c].moved /\ op[c].tries > 1
                 /\ op'[c].pc = "state" /\ op'[c].tries = op[c].tries - 1
              \/ /\ ~op[c].moved /\ ~(op[c].tries > 1)
                 /\ op'[c].pc = "done" /\ op'[c].result = "conflict"
                 /\ op'[c].tries = op[c].tries
<1>0. op[c] \in OpRecords /\ op \in [Clients -> OpRecords] /\ op[c].pc = "snap"
  BY Reads DEF Inv, TypeOK, Snaps
<1>1. CASE op[c].moved /\ op[c].kind = "branch"
  <2>1. op' = [op EXCEPT ![c] = [op[c] EXCEPT !.pc = "done", !.result = "updated"]]
    BY <1>1 DEF Snaps
  <2> QED
    BY <1>0, <1>1, <2>1 DEF OpRecords, LateKeeping
<1>2. CASE op[c].moved /\ op[c].kind # "branch"
  <2>1. op' = [op EXCEPT ![c] = [op[c] EXCEPT !.pc = "log"]]
    BY <1>2 DEF Snaps
  <2> QED
    BY <1>0, <1>2, <2>1 DEF OpRecords, LateKeeping
<1>3. CASE ~op[c].moved /\ op[c].tries > 1
  <2>1. op' = [op EXCEPT ![c] = [op[c] EXCEPT !.pc = "state", !.tries = op[c].tries - 1]]
    BY <1>3 DEF Snaps
  <2> QED
    BY <1>0, <1>3, <2>1 DEF OpRecords, LateKeeping
<1>4. CASE ~op[c].moved /\ ~(op[c].tries > 1)
  <2>1. op' = [op EXCEPT ![c] = [op[c] EXCEPT !.pc = "done", !.result = "conflict"]]
    BY <1>4 DEF Snaps
  <2> QED
    BY <1>0, <1>4, <2>1 DEF OpRecords, LateKeeping
<1> QED
  BY <1>0, <1>1, <1>2, <1>3, <1>4

LEMMA LogsFields ==
    ASSUME Inv, NEW c \in Clients, Logs(c)
    PROVE  /\ LateKeeping(c)
           /\ op[c].pc = "log" /\ op'[c].pc = "done" /\ op'[c].result = "updated"
           /\ op'[c].tries = op[c].tries
  BY Reads DEF Inv, TypeOK, Logs, OpRecords, LateKeeping

LEMMA FlowOfOwn ==
    ASSUME Inv, HistoryInv, NEW c \in Clients, OnlyOp(c), Effects(c)
    PROVE  Flow(c)'
<1>0. /\ op \in [Clients -> OpRecords] /\ op[c] \in OpRecords /\ op'[c] \in OpRecords
      /\ Flow(c)
  BY Reads DEF Inv, TypeOK, OnlyOp, HistoryInv
<1>1. CASE \/ Starts(c) \/ Prepares(c) \/ ReadsBase(c) \/ Ends(c) \/ Caches(c)
           \/ Forgets(c)
  <2>1. /\ ~op'[c].moved
        /\ op'[c].pc \in {"idle", "target", "state", "base", "decide", "cas", "done"}
    BY SMTT(30), <1>0, <1>1 DEF Starts, Prepares, ReadsBase, Ends, Caches, Forgets, Keeps, Flow,
       Idle
  <2>2. op'[c].pc # "idle" => op'[c].since <= Len(moves'[op'[c].branch])
    <3>1. UNCHANGED moves
      BY <1>1 DEF Starts, Prepares, ReadsBase, Ends, Caches, Forgets, Quiet
    <3>2. CASE Starts(c)
      <4>1. Len(moves[op'[c].branch]) \in Nat
        BY <1>0, MovesTyped DEF OpRecords
      <4> QED
        BY <3>1, <3>2, <4>1 DEF Starts
    <3>3. CASE Forgets(c)
      BY <1>0, <3>3 DEF Forgets, Idle
    <3> QED
      BY <1>0, <1>1, <3>1, <3>2, <3>3 DEF Prepares, ReadsBase, Ends, Caches, Keeps, Flow
  <2> QED
    BY <2>1, <2>2 DEF Flow, AwaitsReflog
<1>2. CASE ReadsState(c)
  <2>1. op[c].branch \in Branches /\ op'[c].branch = op[c].branch
    BY <1>2, Reads DEF ReadsState, Keeps
  <2>2. PICK b \in Branches : b = op[c].branch
    BY <2>1
  <2>3. HeldSince(b, head[b], 0)
    BY HeadHeld, MovesTyped DEF HistoryInv
  <2>4. PICK v : v = head[b]
    OBVIOUS
  <2>5. HeldSince(b, v, 0)'
    BY <2>3, <2>4, MovesGrow, HeldStays, <1>2 DEF Effects
  <2>6. op'[c].pc = "cache" =>
          /\ HeldSince(op[c].branch, op[c].expected, 0)'
          /\ head'[op'[c].branch] # Absent
    BY <1>2, <2>1, <2>2, <2>4, <2>5 DEF ReadsState, Quiet
  <2>7. /\ ~op'[c].moved
        /\ op'[c].pc \in {"cache", "base", "decide"}
        /\ op'[c].since <= Len(moves'[op'[c].branch])
    BY <1>0, <1>2 DEF ReadsState, Keeps, Flow, Quiet
  <2> QED
    BY <2>6, <2>7 DEF Flow, AwaitsReflog
<1>3. CASE Applies(c)
  <2>1. PICK b \in Branches : b = op[c].branch
    BY Reads
  <2>2. Len(moves[b]) \in Nat /\ op[c].since \in Nat
    BY <1>0, MovesTyped DEF OpRecords
  <2>3. /\ op'[c].pc = "reread" /\ op'[c].moved /\ op'[c].since = op[c].since
        /\ op'[c].branch = b /\ op'[c].kind = op[c].kind
        /\ op'[c].expected = op[c].expected /\ op'[c].new = op[c].new
    BY <1>0, <1>3, <2>1 DEF Applies, OpRecords
  <2>4. /\ Len(moves'[b]) = Len(moves[b]) + 1
        /\ DOMAIN moves'[b] = 1..(Len(moves[b]) + 1)
        /\ moves'[b][Len(moves[b]) + 1] = MoveOf(c)
        /\ head'[b] # Absent
    BY <1>3, <2>1, AppliedMoves
  <2>5. op'[c].since <= Len(moves'[b])
    BY <1>0, <1>3, <2>1, <2>2, <2>3, <2>4 DEF Flow, Applies
  <2>6. op[c].kind # "branch" =>
          /\ Len(moves[b]) + 1 \in OwnMoves(Workspace(c), b)'
          /\ moves'[b][Len(moves[b]) + 1].old = op[c].expected
          /\ moves'[b][Len(moves[b]) + 1].new = op[c].new
    BY <2>2, <2>4 DEF OwnMoves, MoveOf
  <2>7. AwaitsReflog(c)' =>
          \E i \in OwnMoves(Workspace(c), b)' :
             moves'[b][i].old = op'[c].expected /\ moves'[b][i].new = op'[c].new
    BY <2>3, <2>6 DEF AwaitsReflog
  <2> QED
    BY <2>3, <2>4, <2>5, <2>7 DEF Flow
<1>4. CASE Learns(c) \/ Snaps(c) \/ Logs(c)
  <2>1. UNCHANGED <<head, moves>>
    BY <1>4 DEF Learns, Snaps, Logs, Quiet
  <2>2. /\ op'[c].branch = op[c].branch /\ op'[c].since = op[c].since
        /\ op'[c].kind = op[c].kind /\ op'[c].moved = op[c].moved
        /\ op'[c].expected = op[c].expected /\ op'[c].new = op[c].new
        /\ op[c].pc \in {"cas", "reread", "snap", "log"}
        /\ op'[c].pc \in {"reread", "snap", "log", "done", "state"}
    BY <1>4, LearnsFields, SnapsFields, LogsFields DEF LateKeeping
  <2>3. PICK b \in Branches : b = op[c].branch
    BY Reads
  <2>4. op'[c].since <= Len(moves'[b])
    BY <1>0, <2>1, <2>2, <2>3 DEF Flow
  <2>5. op[c].moved => op[c].pc \in {"reread", "snap", "log"}
    BY <1>0, <2>2 DEF Flow
  <2>6. AwaitsReflog(c)' => AwaitsReflog(c)
    BY <2>2, <2>5 DEF AwaitsReflog
  <2>7. AwaitsReflog(c)' =>
          \E i \in OwnMoves(Workspace(c), b)' :
             moves'[b][i].old = op'[c].expected /\ moves'[b][i].new = op'[c].new
    <3>1. AwaitsReflog(c) =>
            \E i \in OwnMoves(Workspace(c), b) :
               moves[b][i].old = op[c].expected /\ moves[b][i].new = op[c].new
      BY <1>0, <2>3 DEF Flow
    <3>2. OwnMoves(Workspace(c), b)' = OwnMoves(Workspace(c), b)
      BY <2>1 DEF OwnMoves
    <3> QED
      BY <2>1, <2>2, <2>6, <3>1, <3>2
  <2>8. /\ op'[c].moved => op'[c].pc \in {"reread", "snap", "log", "done"}
        /\ op'[c].pc = "log" => op'[c].moved /\ op'[c].kind # "branch"
    BY <1>4, <2>2, <2>5, LearnsFields, SnapsFields, LogsFields
  <2>9. op'[c].pc \in {"reread", "snap"} => head'[b] # Absent
    <3>1. CASE op[c].pc = "cas"
      <4>1. CommitOf(head[b]) # op[c].expected
        BY <1>4, <2>3, <3>1 DEF Learns, Snaps, Logs
      <4>2. head[b] = Absent => op[c].expected = None /\ CommitOf(head[b]) = None
        BY <2>3 DEF HistoryInv, AbsentUnseen, CommitOf
      <4> QED
        BY <2>1, <4>1, <4>2
    <3>2. CASE op[c].pc = "reread"
      BY <1>0, <2>1, <2>3, <3>2 DEF Flow
    <3>3. CASE op[c].pc \in {"snap", "log"}
      BY <1>4, <3>3, LearnsFields, SnapsFields, LogsFields
    <3> QED
      BY <2>2, <3>1, <3>2, <3>3
  <2>10. op'[c].pc = "snap" =>
           op'[c].seen # Absent /\ HeldSince(op[c].branch, op[c].seen, 0)'
    <3>1. op'[c].pc = "snap" => op'[c].seen = head[b]
      BY <1>4, <2>3, LearnsFields, SnapsFields, LogsFields
    <3>2. HeldSince(b, head[b], 0)
      BY HeadHeld, MovesTyped DEF HistoryInv
    <3>3. HeldSince(b, head[b], 0)'
      BY <2>1, <3>2 DEF HeldSince, HeadAt
    <3> QED
      BY <2>1, <2>2, <2>3, <2>9, <3>1, <3>3
  <2> QED
    BY <2>2, <2>3, <2>4, <2>7, <2>8, <2>9, <2>10 DEF Flow
<1> QED
  BY <1>1, <1>2, <1>3, <1>4 DEF Effects

LEMMA HistoryInit == Init => HistoryInv
<1> SUFFICES ASSUME Init PROVE HistoryInv
  OBVIOUS
<1>1. HeadIsLast
  BY DEF Init, HeadIsLast, HeadAt
<1>2. SnapshotWasHead
  BY DEF Init, SnapshotWasHead
<1>3. AbsentUnseen
  BY InitialHistory DEF Init, AbsentUnseen, Idle
<1>4. \A c \in Clients : Flow(c)
  BY DEF Init, Flow, AwaitsReflog, Idle
<1> QED
  BY <1>1, <1>2, <1>3, <1>4 DEF HistoryInv

LEMMA HistoryStep == Inv /\ HistoryInv /\ [Next]_vars => HistoryInv'
<1> SUFFICES ASSUME Inv, HistoryInv, [Next]_vars PROVE HistoryInv'
  OBVIOUS
<1>1. CASE UNCHANGED vars
  BY SMTT(30), <1>1 DEF vars, HistoryInv, HeadIsLast, AbsentUnseen, SnapshotWasHead, Flow,
     HeadAt, HeldSince, AwaitsReflog, OwnMoves
<1>2. CASE Next
  <2>1. PICK c \in Clients : Begin(c) \/ Work(c) \/ Crash(c)
    BY <1>2 DEF Next
  <2>2. OnlyOp(c) /\ (Effects(c) \/ (Quiet /\ UNCHANGED op))
    BY <2>1, StepEffects
  <2>3. HeadIsLast' /\ AbsentUnseen' /\ SnapshotWasHead'
    BY <2>2, HeadFollows, AbsentStep, SnapshotsStep DEF HistoryInv
  <2>4. ASSUME NEW d \in Clients PROVE Flow(d)'
    <3>1. CASE op'[d] = op[d]
      BY <2>2, <3>1, FlowOfOthers
    <3>2. CASE op'[d] # op[d]
      BY <2>2, <3>2, FlowOfOwn DEF OnlyOp
    <3> QED
      BY <3>1, <3>2
  <2> QED
    BY <2>3, <2>4 DEF HistoryInv
<1> QED
  BY <1>1, <1>2

LEMMA HistoryInvariance == Spec => []HistoryInv
  BY HistoryInit, HistoryStep, Invariance, PTL DEF Spec

(* SnapshotWasHead: in whatever order the rereads and the writes of        *)
(* snapshots come, a snapshot holds a value the branch once had.           *)
THEOREM SnapshotsWereHeads == Spec => []SnapshotWasHead
<1>1. HistoryInv => SnapshotWasHead
  BY DEF HistoryInv
<1> QED
  BY <1>1, HistoryInvariance, PTL

-----------------------------------------------------------------------------
(* Seen from the refs, an operation is a client of the register.           *)

\* The call of compare_and_set_branch_ref an operation is in.
CallOf(rec) ==
    IF rec.pc \in {"cas", "reread"}
    THEN [branch |-> rec.branch, expected |-> rec.expected, new |-> rec.new,
          result |-> CASE rec.pc = "cas" -> "pending"
                       [] rec.pc = "reread" /\ rec.moved -> "true"
                       [] OTHER -> "false"]
    ELSE [result |-> "idle"]

CallOfClients == [c \in Clients |-> CallOf(op[c])]

Refs == [b \in Branches |-> CommitOf(head[b])]

LEMMA CallUpdate ==
    ASSUME NEW c \in Clients, OnlyOp(c)
    PROVE  /\ CallOfClients' = [CallOfClients EXCEPT ![c] = CallOf(op'[c])]
           /\ CallOfClients[c] = CallOf(op[c])
           /\ CallOf(op'[c]) = CallOf(op[c]) => UNCHANGED CallOfClients
  BY DEF OnlyOp, CallOfClients

LEMMA CallInvoked ==
    ASSUME Inv, HistoryInv, NEW c \in Clients, OnlyOp(c), UNCHANGED head,
           op[c].pc \notin {"cas", "reread"}, op'[c].pc = "cas"
    PROVE  Register!Invoke(c)
<1>1. /\ op'[c].branch \in Branches
      /\ op'[c].expected \in Values
      /\ op'[c].new \in Values
  BY DEF OnlyOp, OpRecords
<1>2. /\ CallOf(op[c]) = [result |-> "idle"]
      /\ CallOf(op'[c]) = [branch |-> op'[c].branch, expected |-> op'[c].expected,
                           new |-> op'[c].new, result |-> "pending"]
  BY DEF CallOf
<1>3. UNCHANGED Refs
  BY DEF Refs, CommitOf
<1>4. CallOfClients' = [CallOfClients EXCEPT ![c] = CallOf(op'[c])]
      /\ CallOfClients[c] = CallOf(op[c])
  BY CallUpdate
<1> DEFINE calls == CallOfClients
<1>5. /\ calls[c] = [result |-> "idle"]
      /\ UNCHANGED Refs
      /\ \E b \in Branches, expected \in Values, new \in Values :
           calls' = [calls EXCEPT ![c] = [branch |-> b, expected |-> expected,
                                          new |-> new, result |-> "pending"]]
  BY <1>1, <1>2, <1>3, <1>4
<1> QED
  BY <1>5 DEF Register!Invoke, Register!NoCall, Register!Values, Values, Refs,
              CallOfClients, CallOf

LEMMA CallApplied ==
    ASSUME Inv, HistoryInv, NEW c \in Clients, OnlyOp(c), Applies(c)
    PROVE  Register!Apply(c)
<1>0. op[c] \in OpRecords /\ op \in [Clients -> OpRecords] /\ op[c].branch \in Branches
  BY Reads DEF Inv, TypeOK
<1>1. /\ CallOf(op[c]) = [branch |-> op[c].branch, expected |-> op[c].expected,
                           new |-> op[c].new, result |-> "pending"]
      /\ CallOf(op'[c]) = [CallOf(op[c]) EXCEPT !.result = "true"]
  BY SMTT(30), <1>0 DEF Applies, CallOf, OpRecords
<1>2. Refs' = [Refs EXCEPT ![op[c].branch] = op[c].new]
  <2>1. ASSUME NEW b \in Branches
        PROVE  Refs'[b] = IF b = op[c].branch THEN op[c].new ELSE Refs[b]
    BY AppliedMoves DEF Refs, CommitOf
  <2> QED
    BY <2>1 DEF Refs
<1>3. CallOfClients' = [CallOfClients EXCEPT ![c] = CallOf(op'[c])]
      /\ CallOfClients[c] = CallOf(op[c])
  BY CallUpdate
<1>4. Refs[op[c].branch] = op[c].expected
  BY <1>0 DEF Refs, Applies
<1> DEFINE calls == CallOfClients
<1>5. /\ calls[c].result = "pending"
      /\ Refs[calls[c].branch] = calls[c].expected
      /\ Refs' = [Refs EXCEPT ![calls[c].branch] = calls[c].new]
      /\ calls' = [calls EXCEPT ![c].result = "true"]
  BY <1>1, <1>2, <1>3, <1>4
<1> QED
  BY <1>5 DEF Register!Apply, Refs, CallOfClients, CallOf

LEMMA CallRefused ==
    ASSUME Inv, HistoryInv, NEW c \in Clients, OnlyOp(c), Learns(c), op[c].pc = "cas"
    PROVE  Register!Refuse(c)
<1>0. op[c] \in OpRecords /\ op[c].branch \in Branches /\ Flow(c)
  BY Reads DEF HistoryInv
<1>1. /\ op'[c].pc = "reread" /\ LateKeeping(c) /\ ~op[c].moved
      /\ CommitOf(head[op[c].branch]) # op[c].expected
      /\ UNCHANGED head
  BY <1>0, LearnsFields DEF Flow, Learns, Quiet
<1>2. /\ CallOf(op[c]) = [branch |-> op[c].branch, expected |-> op[c].expected,
                           new |-> op[c].new, result |-> "pending"]
      /\ CallOf(op'[c]) = [CallOf(op[c]) EXCEPT !.result = "false"]
  BY <1>1 DEF CallOf, LateKeeping
<1>3. CallOfClients' = [CallOfClients EXCEPT ![c] = CallOf(op'[c])]
      /\ CallOfClients[c] = CallOf(op[c])
  BY CallUpdate
<1>4. UNCHANGED Refs /\ Refs[op[c].branch] # op[c].expected
  BY <1>0, <1>1 DEF Refs, CommitOf
<1> DEFINE calls == CallOfClients
<1>5. /\ calls[c].result = "pending"
      /\ Refs[calls[c].branch] # calls[c].expected
      /\ calls' = [calls EXCEPT ![c].result = "false"]
      /\ UNCHANGED Refs
  BY <1>2, <1>3, <1>4
<1> QED
  BY <1>5 DEF Register!Refuse, Refs, CallOfClients, CallOf

LEMMA CallFinished ==
    ASSUME Inv, HistoryInv, NEW c \in Clients, OnlyOp(c), UNCHANGED head,
           op[c].pc \in {"cas", "reread"}, op'[c].pc \notin {"cas", "reread"}
    PROVE  Register!Finish(c)
<1>1. /\ CallOf(op'[c]) = [result |-> "idle"]
      /\ CallOf(op[c]) # [result |-> "idle"]
  <2>1. CallOf(op[c]).result # "idle"
    BY DEF CallOf
  <2> QED
    BY <2>1 DEF CallOf
<1>2. UNCHANGED Refs
  BY DEF Refs, CommitOf
<1>3. CallOfClients' = [CallOfClients EXCEPT ![c] = CallOf(op'[c])]
      /\ CallOfClients[c] = CallOf(op[c])
  BY CallUpdate
<1> QED
  BY <1>1, <1>2, <1>3
     DEF Register!Finish, Register!NoCall, Refs, CallOfClients, CallOf

LEMMA CallUntouched ==
    ASSUME NEW c \in Clients, OnlyOp(c), UNCHANGED head,
           \/ op'[c] = op[c]
           \/ op[c].pc \notin {"cas", "reread"} /\ op'[c].pc \notin {"cas", "reread"}
    PROVE  UNCHANGED Register!vars
<1>1. CallOf(op'[c]) = CallOf(op[c])
  BY DEF CallOf
<1>2. UNCHANGED CallOfClients /\ UNCHANGED Refs
  BY <1>1, CallUpdate DEF Refs, CommitOf
<1> QED
  BY <1>2 DEF Register!vars, Refs, CallOfClients, CallOf

LEMMA RegisterStep ==
    Inv /\ HistoryInv /\ [Next]_vars => [Register!Next]_(Register!vars)
<1> SUFFICES ASSUME Inv, HistoryInv, [Next]_vars
             PROVE  Register!Next \/ UNCHANGED Register!vars
  OBVIOUS
<1>1. CASE UNCHANGED vars
  BY <1>1 DEF vars, Register!vars, CommitOf
<1>2. CASE Next
  <2>1. PICK c \in Clients : Begin(c) \/ Work(c) \/ Crash(c)
    BY <1>2 DEF Next
  <2>2. OnlyOp(c) /\ (Effects(c) \/ (Quiet /\ UNCHANGED op))
    BY <2>1, StepEffects
  <2>3. CASE Applies(c)
    BY <2>2, <2>3, CallApplied DEF Register!Next
  <2>4. CASE Learns(c) /\ op[c].pc = "cas"
    BY <2>2, <2>4, CallRefused DEF Register!Next
  <2>5. ASSUME ~Applies(c), ~(Learns(c) /\ op[c].pc = "cas")
        PROVE  /\ UNCHANGED head
               /\ \/ op'[c] = op[c]
                  \/ op[c].pc \notin {"cas", "reread"}
                  \/ op'[c].pc \notin {"cas", "reread"}
    <3>1. CASE \/ Starts(c) \/ Prepares(c) \/ ReadsState(c) \/ Caches(c)
               \/ ReadsBase(c) \/ Ends(c) \/ (Quiet /\ UNCHANGED op)
      BY <3>1 DEF Starts, Prepares, ReadsState, Caches, ReadsBase, Ends, Quiet
    <3>2. CASE Learns(c)
      BY <2>5, <3>2, LearnsFields DEF Learns, Quiet
    <3>3. CASE Snaps(c) \/ Logs(c)
      BY <3>3 DEF Snaps, Logs
    <3>4. CASE Forgets(c)
      BY <3>4 DEF Forgets, Idle, Inv, TypeOK
    <3> QED
      BY <2>2, <2>5, <3>1, <3>2, <3>3, <3>4 DEF Effects
  <2>6. ASSUME ~Applies(c), ~(Learns(c) /\ op[c].pc = "cas"),
               op[c].pc \notin {"cas", "reread"}, op'[c].pc \in {"cas", "reread"}
        PROVE  op'[c].pc = "cas"
    <3>1. CASE \/ Starts(c) \/ Prepares(c) \/ ReadsState(c) \/ Caches(c)
               \/ ReadsBase(c) \/ Ends(c) \/ (Quiet /\ UNCHANGED op)
      BY <2>6, <3>1 DEF Starts, Prepares, ReadsState, Caches, ReadsBase, Ends
    <3>2. CASE Learns(c) \/ Snaps(c) \/ Logs(c)
      BY <2>6, <3>2, LearnsFields, SnapsFields, LogsFields
    <3>3. CASE Forgets(c)
      BY <2>6, <3>3 DEF Forgets, Idle, Inv, TypeOK
    <3> QED
      BY <2>2, <2>6, <3>1, <3>2, <3>3 DEF Effects
  <2> QED
    BY <2>2, <2>3, <2>4, <2>5, <2>6, CallInvoked, CallFinished, CallUntouched
       DEF Register!Next
<1> QED
  BY <1>1, <1>2

(* UsesRefCas: every change of a ref is the one atomic step of a           *)
(* compare-and-set call that RefCas promises.                              *)
THEOREM RegisterUsed == Spec => UsesRefCas
<1>1. Init => Register!Init
  BY InitialHistory
     DEF Init, Idle, Values, CommitOf, Register!Init, Register!Values, Register!NoCall
<1> QED
  BY <1>1, RegisterStep, Invariance, HistoryInvariance, PTL
     DEF Spec, UsesRefCas, Register!Spec

-----------------------------------------------------------------------------
(* The reflog has one line for every applied update of its workspace.      *)

\* The clients whose update is applied and not yet in the reflog.
Awaiting(w, b) ==
    {c \in Clients : Workspace(c) = w /\ op[c].branch = b /\ AwaitsReflog(c)}

Counted(w, b) ==
    Cardinality(OwnMoves(w, b)) =
        Len(reflog[w][b]) + unlogged[w][b] + Cardinality(Awaiting(w, b))

LinesMatch(w, b) ==
    \A j \in DOMAIN reflog[w][b] :
        \E i \in OwnMoves(w, b) :
            /\ moves[b][i].old = reflog[w][b][j].old
            /\ moves[b][i].new = reflog[w][b][j].new

LEMMA ReflogIs ==
    ReflogIsFaithful <=>
        \A w \in Workspaces, b \in Branches : Counted(w, b) /\ LinesMatch(w, b)
  BY DEF ReflogIsFaithful, Counted, Awaiting, LinesMatch

LEMMA FiniteSetsOfLog ==
    ASSUME Inv, NEW w \in Workspaces, NEW b \in Branches
    PROVE  /\ IsFiniteSet(OwnMoves(w, b))
           /\ Cardinality(OwnMoves(w, b)) \in Nat
           /\ IsFiniteSet(Awaiting(w, b))
           /\ Cardinality(Awaiting(w, b)) \in Nat
           /\ reflog[w][b] \in Seq([old: Values, new: Values])
           /\ Len(reflog[w][b]) \in Nat
           /\ DOMAIN reflog[w][b] = 1..Len(reflog[w][b])
           /\ unlogged[w][b] \in Nat
<1>1. IsFiniteSet(1..Len(moves[b]))
  BY MovesTyped, FS_Interval
<1>2. OwnMoves(w, b) \in SUBSET (1..Len(moves[b]))
  BY MovesTyped DEF OwnMoves
<1>3. IsFiniteSet(OwnMoves(w, b))
  BY <1>1, <1>2, FS_Subset
<1>4. IsFiniteSet(Awaiting(w, b))
  <2>1. Awaiting(w, b) \in SUBSET Clients
    BY DEF Awaiting
  <2> QED
    BY <2>1, FS_Subset, BranchOpsAssumption
<1>5. reflog[w][b] \in Seq([old: Values, new: Values]) /\ unlogged[w][b] \in Nat
  BY DEF Inv, TypeOK
<1> QED
  BY <1>3, <1>4, <1>5, FS_CardinalityType

\* A step that moves no ref and settles no reflog line.
LEMMA AwaitingKept ==
    ASSUME NEW c \in Clients, OnlyOp(c), NEW w, NEW b,
           (op'[c].branch = b /\ AwaitsReflog(c)')
             <=> (op[c].branch = b /\ AwaitsReflog(c))
    PROVE  Awaiting(w, b)' = Awaiting(w, b)
<1>1. ASSUME NEW d \in Clients
      PROVE  (op'[d].branch = b /\ AwaitsReflog(d)')
               <=> (op[d].branch = b /\ AwaitsReflog(d))
  BY DEF OnlyOp, AwaitsReflog
<1> QED
  BY <1>1 DEF Awaiting, Workspace

LEMMA AwaitingSettled ==
    ASSUME NEW c \in Clients, OnlyOp(c), NEW w, NEW b,
           ~AwaitsReflog(c)', AwaitsReflog(c), op[c].branch = b, w = Workspace(c)
    PROVE  /\ Awaiting(w, b)' = Awaiting(w, b) \ {c}
           /\ c \in Awaiting(w, b)
<1>1. ASSUME NEW d \in Clients, d # c
      PROVE  (op'[d].branch = b /\ AwaitsReflog(d)')
               <=> (op[d].branch = b /\ AwaitsReflog(d))
  BY <1>1 DEF OnlyOp, AwaitsReflog
<1> QED
  BY <1>1 DEF Awaiting, Workspace

LEMMA AwaitingBegun ==
    ASSUME NEW c \in Clients, OnlyOp(c), NEW w, NEW b,
           AwaitsReflog(c)', ~AwaitsReflog(c), op'[c].branch = b, w = Workspace(c)
    PROVE  /\ Awaiting(w, b)' = Awaiting(w, b) \union {c}
           /\ c \notin Awaiting(w, b)
<1>1. ASSUME NEW d \in Clients, d # c
      PROVE  (op'[d].branch = b /\ AwaitsReflog(d)')
               <=> (op[d].branch = b /\ AwaitsReflog(d))
  BY <1>1 DEF OnlyOp, AwaitsReflog
<1> QED
  BY <1>1 DEF Awaiting, Workspace

\* A step of c changes nothing for another workspace or branch.
LEMMA AwaitingElsewhere ==
    ASSUME NEW c \in Clients, OnlyOp(c), NEW w, NEW b,
           ~(w = Workspace(c) /\ b = op[c].branch),
           op'[c].branch = op[c].branch \/ ~AwaitsReflog(c)'
    PROVE  Awaiting(w, b)' = Awaiting(w, b)
<1>1. ASSUME NEW d \in Clients
      PROVE  (Workspace(d) = w /\ op'[d].branch = b /\ AwaitsReflog(d)')
               <=> (Workspace(d) = w /\ op[d].branch = b /\ AwaitsReflog(d))
  <2>1. CASE d = c
    BY <2>1
  <2>2. CASE d # c
    BY <2>2 DEF OnlyOp, AwaitsReflog
  <2> QED
    BY <2>1, <2>2
<1> QED
  BY <1>1 DEF Awaiting, Workspace

\* Which steps change what the count is about.
LEMMA LogEffects ==
    ASSUME Inv, HistoryInv, NEW c \in Clients, OnlyOp(c),
           Effects(c) \/ (Quiet /\ UNCHANGED op)
    PROVE  \/ /\ UNCHANGED <<moves, reflog, unlogged>>
              /\ \/ ~AwaitsReflog(c) /\ ~AwaitsReflog(c)'
                 \/ op'[c].branch = op[c].branch /\ (AwaitsReflog(c)' <=> AwaitsReflog(c))
           \/ Applies(c)
           \/ Logs(c)
           \/ /\ UNCHANGED <<moves, reflog>>
              /\ AwaitsReflog(c) /\ ~AwaitsReflog(c)'
              /\ unlogged' = [unlogged EXCEPT ![Workspace(c)][op[c].branch] = @ + 1]
<1>0. Flow(c) /\ op \in [Clients -> OpRecords]
  BY DEF HistoryInv, Inv, TypeOK
<1>1. CASE \/ Starts(c) \/ Prepares(c) \/ ReadsState(c) \/ Caches(c)
           \/ ReadsBase(c) \/ Ends(c)
  BY <1>0, <1>1 DEF Starts, Prepares, ReadsState, Caches, ReadsBase, Ends, Quiet, Keeps,
                   AwaitsReflog, Flow
<1>2. CASE Quiet /\ UNCHANGED op
  BY <1>2 DEF Quiet, AwaitsReflog
<1>3. CASE Learns(c)
  BY <1>0, <1>3, LearnsFields DEF Learns, Quiet, LateKeeping, AwaitsReflog, Flow
<1>4. CASE Snaps(c)
  BY <1>0, <1>4, SnapsFields DEF Snaps, LateKeeping, AwaitsReflog, Flow
<1>5. CASE Forgets(c)
  <2>1. ~AwaitsReflog(c)'
    BY <1>0, <1>5 DEF Forgets, Idle, AwaitsReflog
  <2> QED
    BY <1>5, <2>1 DEF Forgets
<1> QED
  BY <1>1, <1>2, <1>3, <1>4, <1>5 DEF Effects

\* The applied update is a new own move, unless it made the branch.
LEMMA OwnMovesApplied ==
    ASSUME Inv, NEW c \in Clients, Applies(c), NEW w, NEW b \in Branches
    PROVE  LET n == Len(moves[b]) + 1
           IN  /\ n \notin OwnMoves(w, b)
               /\ OwnMoves(w, b)' =
                    IF w = Workspace(c) /\ b = op[c].branch /\ op[c].kind # "branch"
                    THEN OwnMoves(w, b) \union {n}
                    ELSE OwnMoves(w, b)
<1> DEFINE n == Len(moves[b]) + 1
<1>1. Len(moves[b]) \in Nat /\ DOMAIN moves[b] = 1..Len(moves[b])
  BY MovesTyped
<1>2. n \notin OwnMoves(w, b)
  BY <1>1 DEF OwnMoves
<1>3. CASE b # op[c].branch
  BY <1>2, <1>3, AppliedMoves DEF OwnMoves
<1>4. CASE b = op[c].branch
  <2>1. /\ DOMAIN moves'[b] = 1..n
        /\ \A i \in 1..Len(moves[b]) : moves'[b][i] = moves[b][i]
        /\ moves'[b][n] = MoveOf(c)
    BY <1>4, AppliedMoves
  <2>2. MoveOf(c).by = Workspace(c) /\ MoveOf(c).kind = op[c].kind
    BY DEF MoveOf
  <2>3. \A i \in 1..n : i = n \/ i \in 1..Len(moves[b])
    BY <1>1
  <2>4. n \in 1..n /\ \A i \in 1..Len(moves[b]) : i \in 1..n
    BY <1>1
  <2>5. \A i : i \in OwnMoves(w, b)' <=>
          \/ i \in OwnMoves(w, b)
          \/ i = n /\ w = Workspace(c) /\ op[c].kind # "branch"
    <3> HIDE DEF n
    <3> QED
      BY <1>1, <1>2, <2>1, <2>2, <2>3, <2>4 DEF OwnMoves
  <2> QED
    BY <1>2, <1>4, <2>5
<1> QED
  BY <1>3, <1>4

LEMMA LinesStep ==
    ASSUME Inv, HistoryInv, NEW c \in Clients, OnlyOp(c),
           Effects(c) \/ (Quiet /\ UNCHANGED op),
           NEW w \in Workspaces, NEW b \in Branches, LinesMatch(w, b)
    PROVE  LinesMatch(w, b)'
<1>1. \A i \in OwnMoves(w, b) :
        i \in OwnMoves(w, b)' /\ moves'[b][i] = moves[b][i]
  BY MovesGrow, OwnMovesGrow
<1>2. CASE reflog'[w][b] = reflog[w][b]
  BY <1>1, <1>2 DEF LinesMatch
<1>3. CASE reflog'[w][b] # reflog[w][b]
  <2>1. Logs(c)
    BY <1>3, LogEffects DEF Applies
  <2> DEFINE line == [old |-> op[c].expected, new |-> op[c].new]
  <2>2. reflog \in [Workspaces -> [Branches -> Seq([old: Values, new: Values])]]
    BY DEF Inv, TypeOK
  <2>3. /\ w = Workspace(c) /\ b = op[c].branch
        /\ reflog'[w][b] = Append(reflog[w][b], line)
    BY <1>3, <2>1, <2>2, Reads DEF Logs
  <2>4. line \in [old: Values, new: Values]
    BY Reads
  <2>5. reflog[w][b] \in Seq([old: Values, new: Values])
    BY <2>2
  <2>6. ASSUME NEW j \in DOMAIN reflog'[w][b]
        PROVE  \/ j \in DOMAIN reflog[w][b] /\ reflog'[w][b][j] = reflog[w][b][j]
               \/ reflog'[w][b][j] = line
    <3> HIDE DEF line
    <3> QED
      BY SMTT(30), <2>3, <2>4, <2>5
  <2>7. \E i \in OwnMoves(w, b) : moves[b][i].old = line.old /\ moves[b][i].new = line.new
    <3>1. AwaitsReflog(c) /\ Flow(c)
      BY <2>1 DEF HistoryInv, Flow, Logs, AwaitsReflog
    <3> QED
      BY <2>3, <3>1 DEF Flow
  <2> HIDE DEF line
  <2> QED
    BY <1>1, <2>6, <2>7 DEF LinesMatch
<1> QED
  BY <1>2, <1>3

\* A line that was awaited is written, or given up as unlogged.
LEMMA Balance ==
    \A l, u, n \in Nat : /\ (l + 1) + u + (n - 1) = l + u + n
                         /\ l + (u + 1) + (n - 1) = l + u + n
  OBVIOUS

LEMMA CountStep ==
    ASSUME Inv, Inv', HistoryInv, NEW c \in Clients, OnlyOp(c),
           Effects(c) \/ (Quiet /\ UNCHANGED op),
           NEW w \in Workspaces, NEW b \in Branches, Counted(w, b)
    PROVE  Counted(w, b)'
<1>0. /\ op \in [Clients -> OpRecords] /\ op[c] \in OpRecords /\ Flow(c)
      /\ op[c].branch \in Branches /\ Workspace(c) \in Workspaces
  BY Reads DEF HistoryInv, Inv, TypeOK
<1>a. /\ Cardinality(OwnMoves(w, b)) \in Nat
      /\ Cardinality(Awaiting(w, b)) \in Nat
      /\ Len(reflog[w][b]) \in Nat
      /\ unlogged[w][b] \in Nat
  BY FiniteSetsOfLog
<1>b. Cardinality(OwnMoves(w, b)) =
        Len(reflog[w][b]) + unlogged[w][b] + Cardinality(Awaiting(w, b))
  BY DEF Counted
<1> SUFFICES Cardinality(OwnMoves(w, b)') =
               Len(reflog'[w][b]) + unlogged'[w][b] + Cardinality(Awaiting(w, b)')
  BY DEF Counted
<1>1. CASE /\ UNCHANGED <<moves, reflog, unlogged>>
           /\ \/ ~AwaitsReflog(c) /\ ~AwaitsReflog(c)'
              \/ op'[c].branch = op[c].branch /\ (AwaitsReflog(c)' <=> AwaitsReflog(c))
  <2>1. Awaiting(w, b)' = Awaiting(w, b)
    BY <1>1, AwaitingKept
  <2>2. OwnMoves(w, b)' = OwnMoves(w, b)
    BY <1>1 DEF OwnMoves
  <2> QED
    BY <1>1, <2>1, <2>2, <1>b
<1>2. CASE Applies(c)
  <2>1. /\ op'[c].branch = op[c].branch /\ op'[c].kind = op[c].kind
        /\ op'[c].pc = "reread" /\ op'[c].moved
        /\ op[c].pc = "cas"
    BY <1>0, <1>2 DEF Applies, OpRecords
  <2>2. ~AwaitsReflog(c) /\ (AwaitsReflog(c)' <=> op[c].kind # "branch")
    BY <2>1 DEF AwaitsReflog
  <2>3. reflog'[w][b] = reflog[w][b] /\ unlogged'[w][b] = unlogged[w][b]
    BY <1>2 DEF Applies
  <2>4. CASE w = Workspace(c) /\ b = op[c].branch /\ op[c].kind # "branch"
    <3>1. /\ Awaiting(w, b)' = Awaiting(w, b) \union {c}
          /\ c \notin Awaiting(w, b)
      BY <2>1, <2>2, <2>4, AwaitingBegun
    <3>2. PICK n : n \notin OwnMoves(w, b) /\ OwnMoves(w, b)' = OwnMoves(w, b) \union {n}
      BY <1>2, <2>4, OwnMovesApplied
    <3>3. Cardinality(OwnMoves(w, b)') = Cardinality(OwnMoves(w, b)) + 1
      BY <3>2, FiniteSetsOfLog, FS_AddElement
    <3>4. Cardinality(Awaiting(w, b)') = Cardinality(Awaiting(w, b)) + 1
      BY <3>1, FiniteSetsOfLog, FS_AddElement
    <3> QED
      BY SMTT(30), <2>3, <3>3, <3>4, <1>a, <1>b
  <2>5. CASE ~(w = Workspace(c) /\ b = op[c].branch /\ op[c].kind # "branch")
    <3>1. OwnMoves(w, b)' = OwnMoves(w, b)
      BY <1>2, <2>5, OwnMovesApplied
    <3>2. Awaiting(w, b)' = Awaiting(w, b)
      BY <2>1, <2>2, <2>5, AwaitingElsewhere, AwaitingKept
    <3> QED
      BY <2>3, <3>1, <3>2, <1>b
  <2> QED
    BY <2>4, <2>5
<1>3. CASE Logs(c)
  <2>1. /\ AwaitsReflog(c) /\ ~AwaitsReflog(c)'
        /\ op'[c].branch = op[c].branch
    BY <1>0, <1>3, LogsFields DEF Flow, AwaitsReflog, LateKeeping
  <2>2. OwnMoves(w, b)' = OwnMoves(w, b) /\ unlogged'[w][b] = unlogged[w][b]
    BY <1>3 DEF Logs, OwnMoves
  <2>3. reflog \in [Workspaces -> [Branches -> Seq([old: Values, new: Values])]]
    BY DEF Inv, TypeOK
  <2>4. CASE w = Workspace(c) /\ b = op[c].branch
    <3>1. Awaiting(w, b)' = Awaiting(w, b) \ {c} /\ c \in Awaiting(w, b)
      BY <2>1, <2>4, AwaitingSettled
    <3>2. Cardinality(Awaiting(w, b)') = Cardinality(Awaiting(w, b)) - 1
      BY ZenonT(60), <3>1, FiniteSetsOfLog, FS_RemoveElement
    <3> DEFINE line == [old |-> op[c].expected, new |-> op[c].new]
    <3>3. reflog'[w][b] = Append(reflog[w][b], line)
      BY <1>3, <2>3, <2>4 DEF Logs
    <3>4. line \in [old: Values, new: Values]
      BY Reads
    <3>5. Len(reflog'[w][b]) = Len(reflog[w][b]) + 1
      <4> HIDE DEF line
      <4> QED
        BY <3>3, <3>4, FiniteSetsOfLog
    <3>a. Cardinality(OwnMoves(w, b)') = Cardinality(OwnMoves(w, b))
      BY <2>2
    <3>b. Len(reflog'[w][b]) + unlogged'[w][b] + Cardinality(Awaiting(w, b)') =
            Len(reflog[w][b]) + unlogged[w][b] + Cardinality(Awaiting(w, b))
      <4>1. PICK l \in Nat, u \in Nat, n \in Nat :
              /\ l = Len(reflog[w][b])
              /\ u = unlogged[w][b]
              /\ n = Cardinality(Awaiting(w, b))
        BY <1>a
      <4>2. /\ Len(reflog'[w][b]) = l + 1
            /\ unlogged'[w][b] = u
            /\ Cardinality(Awaiting(w, b)') = n - 1
        BY <2>2, <3>2, <3>5, <4>1
      <4>3. (l + 1) + u + (n - 1) = l + u + n
        BY Balance
      <4> QED
        BY <4>1, <4>2, <4>3
    <3> QED
      BY <3>a, <3>b, <1>b
  <2>5. CASE ~(w = Workspace(c) /\ b = op[c].branch)
    <3>1. Awaiting(w, b)' = Awaiting(w, b)
      BY <2>1, <2>5, AwaitingElsewhere
    <3>2. reflog'[w][b] = reflog[w][b]
      BY <1>0, <1>3, <2>3, <2>5 DEF Logs
    <3> QED
      BY <2>2, <3>1, <3>2, <1>b
  <2> QED
    BY <2>4, <2>5
<1>4. CASE /\ UNCHANGED <<moves, reflog>>
           /\ AwaitsReflog(c) /\ ~AwaitsReflog(c)'
           /\ unlogged' = [unlogged EXCEPT ![Workspace(c)][op[c].branch] = @ + 1]
  <2>1. OwnMoves(w, b)' = OwnMoves(w, b) /\ reflog'[w][b] = reflog[w][b]
    BY <1>4 DEF OwnMoves
  <2>2. unlogged \in [Workspaces -> [Branches -> Nat]]
    BY DEF Inv, TypeOK
  <2>3. CASE w = Workspace(c) /\ b = op[c].branch
    <3>1. Awaiting(w, b)' = Awaiting(w, b) \ {c} /\ c \in Awaiting(w, b)
      BY <1>4, <2>3, AwaitingSettled
    <3>2. Cardinality(Awaiting(w, b)') = Cardinality(Awaiting(w, b)) - 1
      BY ZenonT(60), <3>1, FiniteSetsOfLog, FS_RemoveElement
    <3>3. unlogged'[w][b] = unlogged[w][b] + 1
      BY <1>4, <2>2, <2>3
    <3>a. Cardinality(OwnMoves(w, b)') = Cardinality(OwnMoves(w, b))
      BY <2>1
    <3>b. Len(reflog'[w][b]) + unlogged'[w][b] + Cardinality(Awaiting(w, b)') =
            Len(reflog[w][b]) + unlogged[w][b] + Cardinality(Awaiting(w, b))
      BY SMTT(30), <2>1, <3>2, <3>3, <1>a, Balance
    <3> QED
      BY <3>a, <3>b, <1>b
  <2>4. CASE ~(w = Workspace(c) /\ b = op[c].branch)
    <3>1. Awaiting(w, b)' = Awaiting(w, b)
      BY <1>4, <2>4, AwaitingElsewhere
    <3>2. unlogged'[w][b] = unlogged[w][b]
      BY <1>0, <1>4, <2>2, <2>4
    <3> QED
      BY <2>1, <3>1, <3>2, <1>b
  <2> QED
    BY <2>3, <2>4
<1> QED
  BY <1>1, <1>2, <1>3, <1>4, LogEffects

LEMMA ReflogStep ==
    Inv /\ Inv' /\ HistoryInv /\ ReflogIsFaithful /\ [Next]_vars => ReflogIsFaithful'
<1> SUFFICES ASSUME Inv, Inv', HistoryInv, ReflogIsFaithful, [Next]_vars
             PROVE  \A w \in Workspaces, b \in Branches :
                      Counted(w, b)' /\ LinesMatch(w, b)'
  BY DEF ReflogIsFaithful, Counted, Awaiting, LinesMatch
<1> SUFFICES ASSUME NEW w \in Workspaces, NEW b \in Branches
             PROVE  Counted(w, b)' /\ LinesMatch(w, b)'
  OBVIOUS
<1>0. Counted(w, b) /\ LinesMatch(w, b)
  BY ReflogIs
<1>1. CASE UNCHANGED vars
  BY <1>0, <1>1 DEF vars, Counted, LinesMatch, OwnMoves, Awaiting, AwaitsReflog, Workspace
<1>2. CASE Next
  <2>1. PICK c \in Clients : Begin(c) \/ Work(c) \/ Crash(c)
    BY <1>2 DEF Next
  <2>2. OnlyOp(c) /\ (Effects(c) \/ (Quiet /\ UNCHANGED op))
    BY <2>1, StepEffects
  <2> QED
    BY <1>0, <2>2, CountStep, LinesStep
<1> QED
  BY <1>1, <1>2

(* ReflogIsFaithful: one line for each update of the workspace that was    *)
(* applied, short only of those whose process died before writing it, and  *)
(* no line for anything else.                                              *)
THEOREM ReflogFaithful == Spec => []ReflogIsFaithful
<1>1. Init => ReflogIsFaithful
  <2> SUFFICES ASSUME Init, NEW w \in Workspaces, NEW b \in Branches
               PROVE  Counted(w, b) /\ LinesMatch(w, b)
    BY ReflogIs
  <2>1. OwnMoves(w, b) = {} /\ Awaiting(w, b) = {}
    BY DEF Init, OwnMoves, Awaiting, AwaitsReflog, Idle
  <2>2. reflog[w][b] = <<>> /\ unlogged[w][b] = 0
    BY DEF Init
  <2> QED
    BY <2>1, <2>2, FS_EmptySet DEF Counted, LinesMatch
<1> QED
  BY <1>1, ReflogStep, Invariance, HistoryInvariance, PTL DEF Spec

-----------------------------------------------------------------------------
(* A process that is alone in its workspace.                               *)

LEMMA OnlyOne ==
    ASSUME NEW c \in Clients, NEW d \in Clients, Alone(Workspace(c)),
           Workspace(d) = Workspace(c)
    PROVE  d = c
<1> DEFINE S == {e \in Clients : Workspace(e) = Workspace(c)}
<1>1. IsFiniteSet(S)
  <2>1. S \in SUBSET Clients
    OBVIOUS
  <2> HIDE DEF S
  <2> QED
    BY <2>1, FS_Subset, BranchOpsAssumption
<1>2. Cardinality(S) = 1
  BY DEF Alone
<1>3. c \in S /\ d \in S
  OBVIOUS
<1> HIDE DEF S
<1>4. PICK x : S = {x}
  BY <1>1, <1>2, FS_Singleton
<1> QED
  BY <1>3, <1>4

LEMMA CoversStay ==
    ASSUME Inv, NEW w, NEW b \in Branches, NEW v, Grows(b),
           OwnMoves(w, b)' = OwnMoves(w, b), Covers(w, b, v)
    PROVE  Covers(w, b, v)'
<1>1. \A i \in DOMAIN moves[b] : i \in DOMAIN moves'[b] /\ moves'[b][i] = moves[b][i]
  BY MovesTyped DEF Grows
<1> QED
  BY <1>1 DEF Covers

LEMMA HeadCovers ==
    ASSUME Inv, HeadIsLast, NEW w, NEW b \in Branches
    PROVE  Covers(w, b, head[b])
<1>1. /\ Len(moves[b]) \in Nat
      /\ DOMAIN moves[b] = 1..Len(moves[b])
      /\ head[b] = HeadAt(b, Len(moves[b]))
  BY MovesTyped DEF HeadIsLast
<1>2. ASSUME NEW j \in OwnMoves(w, b)
      PROVE  \E i \in DOMAIN moves[b] :
               (\A k \in OwnMoves(w, b) : k <= i) /\ head[b] = moves[b][i].new
  <2>1. j \in 1..Len(moves[b])
    BY <1>1 DEF OwnMoves
  <2>2. Len(moves[b]) \in DOMAIN moves[b] /\ Len(moves[b]) # 0
    BY <1>1, <2>1
  <2>3. \A k \in OwnMoves(w, b) : k <= Len(moves[b])
    BY <1>1 DEF OwnMoves
  <2> QED
    BY <1>1, <2>2, <2>3 DEF HeadAt
<1> QED
  BY <1>2 DEF Covers

\* The state no branch ever held covers a move of nobody.
LEMMA NoSnapCovers ==
    ASSUME Inv, NEW w, NEW b \in Branches, Covers(w, b, NoSnap)
    PROVE  OwnMoves(w, b) = {}
  BY MovesTyped DEF Covers

LEMMA NoSnapNeverHeld ==
    ASSUME Inv, NEW b \in Branches, NEW n
    PROVE  ~HeldSince(b, NoSnap, n)
<1>1. InitHead[b] # NoSnap
  <2>1. InitHead[b] \in Values \union {Absent}
    BY InitialHistory DEF Values
  <2> QED
    BY <2>1, BranchOpsAssumption
<1>2. \A i \in 0..Len(moves[b]) : i # 0 => i \in 1..Len(moves[b])
  BY MovesTyped
<1> QED
  BY <1>1, <1>2, MovesTyped DEF HeldSince, HeadAt

\* A step of c, seen from a workspace that is not c's.
LEMMA Elsewhere ==
    ASSUME Inv, NEW c \in Clients, Effects(c) \/ (Quiet /\ UNCHANGED op),
           NEW w \in Workspaces, w # Workspace(c), NEW b \in Branches
    PROVE  /\ snapshot'[w][b] = snapshot[w][b]
           /\ OwnMoves(w, b)' = OwnMoves(w, b)
           /\ unlogged'[w][b] = unlogged[w][b]
<1>0. unlogged \in [Workspaces -> [Branches -> Nat]]
  BY DEF Inv, TypeOK
<1>1. snapshot'[w][b] = snapshot[w][b]
  <2>1. \/ UNCHANGED snapshot
        \/ \E v : snapshot' = [snapshot EXCEPT ![Workspace(c)][op[c].branch] = v]
    BY DEF Effects, Starts, Prepares, ReadsState, Caches, ReadsBase, Ends, Applies,
       Learns, Snaps, Logs, Forgets, Quiet
  <2> QED
    BY <2>1, SnapshotUpdate
<1>2. OwnMoves(w, b)' = OwnMoves(w, b)
  <2>1. CASE UNCHANGED moves
    BY <2>1 DEF OwnMoves
  <2>2. CASE Applies(c)
    BY <2>2, OwnMovesApplied
  <2> QED
    BY <2>1, <2>2 DEF Effects, Starts, Prepares, ReadsState, Caches, ReadsBase, Ends,
       Learns, Snaps, Logs, Forgets, Quiet
<1>3. unlogged'[w][b] = unlogged[w][b]
  <2>1. \/ UNCHANGED unlogged
        \/ unlogged' = [unlogged EXCEPT ![Workspace(c)][op[c].branch] = @ + 1]
    BY DEF Effects, Starts, Prepares, ReadsState, Caches, ReadsBase, Ends, Applies,
       Learns, Snaps, Logs, Forgets, Quiet
  <2> QED
    BY <1>0, <2>1
<1> QED
  BY <1>1, <1>2, <1>3

LEMMA AloneOfOthers ==
    ASSUME Inv, HistoryInv, NEW c \in Clients, OnlyOp(c),
           Effects(c) \/ (Quiet /\ UNCHANGED op),
           NEW d \in Clients, d # c, Alone(Workspace(d)), OwnReads(d), Staged(d)
    PROVE  OwnReads(d)' /\ Staged(d)'
<1>1. PICK w \in Workspaces : w = Workspace(d)
  BY Reads
<1>2. PICK b \in Branches : b = op[d].branch
  BY Reads
<1>3. op'[d] = op[d]
  BY DEF OnlyOp
<1>4. /\ snapshot'[w][b] = snapshot[w][b]
      /\ OwnMoves(w, b)' = OwnMoves(w, b)
  BY <1>1, OnlyOne, Elsewhere
<1>5. Grows(b) /\ Len(moves[b]) \in Nat
  BY MovesGrow, MovesTyped
<1>6. /\ op[d].since \in Nat /\ op[d].tries \in Int /\ StagedRetries \in Nat
      /\ op[d].pc # "idle" => op[d].since <= Len(moves[b])
  BY <1>2, Reads, BranchOpsAssumption DEF OpRecords, HistoryInv, Flow
<1>7. PICK v : v = op[d].seen
  OBVIOUS
<1>8. OwnReads(d)'
  <2>1. op[d].pc = "snap" => Covers(w, b, v)
    BY <1>1, <1>2, <1>7 DEF OwnReads
  <2>2. op[d].pc = "snap" => Covers(w, b, v)'
    BY <1>4, <1>5, <2>1, CoversStay
  <2>3. Covers(w, b, v)' => Covers(Workspace(d), op[d].branch, op[d].seen)'
    BY <1>1, <1>2, <1>3, <1>7 DEF Workspace
  <2>4. Workspace(d)' = w
    BY <1>1 DEF Workspace
  <2> QED
    BY <1>1, <1>2, <1>3, <1>4, <2>2, <2>3, <2>4 DEF OwnReads
<1>9. Staged(d)'
  <2>1. \A x : Late(d, x) => Late(d, x)'
    <3> SUFFICES ASSUME NEW x, Late(d, x) PROVE Late(d, x)'
      OBVIOUS
    <3>1. PICK n : n = op[d].since + Failed(d) - 1
      OBVIOUS
    <3>2. Failed(d)' = Failed(d) /\ op'[d].since + Failed(d)' - 1 = n
      BY <1>3, <3>1 DEF Failed
    <3>3. HeldSince(b, x, n) => HeldSince(b, x, n)'
      BY <1>5, HeldStays
    <3>4. Failed(d) = 0 \/ HeldSince(b, x, n)
      BY <1>2, <3>1 DEF Late
    <3> QED
      BY <1>2, <1>3, <3>2, <3>3, <3>4 DEF Late
  <2>2. op[d].pc = "snap" => (HeldSince(b, v, op[d].since + Failed(d)) =>
                                HeldSince(b, v, op[d].since + Failed(d))')
    <3>1. PICK n : n = op[d].since + Failed(d)
      OBVIOUS
    <3>2. (op[d].since + Failed(d))' = n
      BY <1>3, <3>1 DEF Failed
    <3>3. HeldSince(b, v, n) => HeldSince(b, v, n)'
      BY <1>5, HeldStays
    <3> QED
      BY <3>1, <3>2, <3>3
  <2>3. PICK s : s = snapshot[w][b]
    OBVIOUS
  <2>4. PICK e : e = op[d].expected
    OBVIOUS
  <2>5. op[d].kind = "staged" =>
          /\ op[d].pc # "idle" => op[d].tries \in 1..StagedRetries
          /\ op[d].pc = "state" => Late(d, s)
          /\ op[d].pc = "cache" => Failed(d) = 0
          /\ op[d].pc \in {"base", "decide", "cas"} => Late(d, e)
          /\ op[d].pc = "reread" /\ ~op[d].moved =>
               op[d].since + Failed(d) <= Len(moves[b])
          /\ op[d].pc = "snap" /\ ~op[d].moved =>
               HeldSince(b, v, op[d].since + Failed(d))
          /\ op[d].pc = "done" /\ op[d].result = "conflict" =>
               Len(moves[b]) - op[d].since >= StagedRetries - 1
    BY <1>1, <1>2, <1>7, <2>3, <2>4 DEF Staged
  <2>6. Failed(d)' = Failed(d) /\ Failed(d) \in Int
    BY <1>3, <1>6 DEF Failed
  <2>7. op[d].kind = "staged" =>
          /\ op[d].pc # "idle" => op[d].tries \in 1..StagedRetries
          /\ op[d].pc = "state" => Late(d, s)'
          /\ op[d].pc = "cache" => Failed(d)' = 0
          /\ op[d].pc \in {"base", "decide", "cas"} => Late(d, e)'
          /\ op[d].pc = "reread" /\ ~op[d].moved =>
               op[d].since + Failed(d)' <= Len(moves'[b])
          /\ op[d].pc = "snap" /\ ~op[d].moved =>
               HeldSince(b, v, op[d].since + Failed(d))'
          /\ op[d].pc = "done" /\ op[d].result = "conflict" =>
               Len(moves'[b]) - op[d].since >= StagedRetries - 1
    BY SMTT(30), <1>5, <1>6, <2>1, <2>2, <2>5, <2>6 DEF Grows
  <2>8. /\ Late(d, s)' => Late(d, snapshot[Workspace(d)][op[d].branch])'
        /\ Late(d, e)' => Late(d, op[d].expected)'
        /\ HeldSince(b, v, op[d].since + Failed(d))' =>
             HeldSince(op[d].branch, op[d].seen, op[d].since + Failed(d))'
    BY <1>1, <1>2, <1>3, <1>4, <1>7, <2>3, <2>4 DEF Workspace
  <2> QED
    BY <1>2, <1>3, <2>7, <2>8 DEF Staged
<1> QED
  BY <1>8, <1>9

LEMMA OwnReadsStep ==
    ASSUME Inv, HistoryInv, NEW c \in Clients, OnlyOp(c), Effects(c), OwnReads(c)
    PROVE  OwnReads(c)'
<1>0. /\ op \in [Clients -> OpRecords] /\ op[c] \in OpRecords
      /\ Workspace(c)' = Workspace(c)
  BY Reads DEF Inv, TypeOK, Workspace
<1>1. CASE \/ Starts(c) \/ Prepares(c) \/ ReadsState(c) \/ ReadsBase(c) \/ Ends(c)
  <2>1. op'[c].kind # "mutate" \/ op'[c].branch = op[c].branch \/ op'[c].pc = "state"
    BY <1>1 DEF Starts, Prepares, ReadsState, ReadsBase, Ends, Keeps
  <2>2. UNCHANGED snapshot
    BY <1>1 DEF Starts, Prepares, ReadsState, ReadsBase, Ends, Quiet
  <2>3. op'[c].pc # "snap"
    BY <1>1 DEF Starts, Prepares, ReadsState, ReadsBase, Ends
  <2>4. op'[c].pc = "cache" => snapshot'[Workspace(c)][op'[c].branch] = NoSnap
    BY <1>1, <2>2 DEF Starts, Prepares, ReadsState, ReadsBase, Ends, Keeps
  <2>5. op'[c].kind = "mutate" =>
          /\ op'[c].pc = "base" => snapshot'[Workspace(c)][op'[c].branch] = op'[c].expected
          /\ op'[c].pc \in {"decide", "cas"} => op'[c].target = op'[c].expected
    <3>1. CASE Starts(c)
      BY <3>1 DEF Starts
    <3>2. CASE Prepares(c)
      BY <3>2 DEF Prepares, Keeps, OwnReads
    <3>3. CASE ReadsState(c)
      BY <2>2, <3>3 DEF ReadsState, Keeps
    <3>4. CASE ReadsBase(c)
      BY <3>4 DEF ReadsBase, Keeps, OwnReads
    <3>5. CASE Ends(c)
      BY <3>5 DEF Ends
    <3> QED
      BY <1>1, <3>1, <3>2, <3>3, <3>4, <3>5
  <2> QED
    BY <1>0, <2>3, <2>4, <2>5 DEF OwnReads
<1>2. CASE Caches(c)
  <2>1. /\ snapshot'[Workspace(c)][op[c].branch] = op[c].expected
        /\ op'[c].branch = op[c].branch /\ op'[c].kind = op[c].kind
        /\ op'[c].expected = op[c].expected
        /\ op'[c].pc = IF op[c].kind = "mutate" THEN "base" ELSE "decide"
    <3>1. snapshot' = [snapshot EXCEPT ![Workspace(c)][op[c].branch] = op[c].expected]
      BY <1>2 DEF Caches
    <3>2. snapshot'[Workspace(c)][op[c].branch] = op[c].expected
      <4>1. snapshot \in [Workspaces -> [Branches -> Values \union {NoSnap}]]
        BY DEF Inv, TypeOK
      <4>2. Workspace(c) \in Workspaces /\ op[c].branch \in Branches
        BY Reads
      <4> QED
        BY <3>1, <4>1, <4>2
    <3>3. Keeps(c) /\ op'[c].expected = op[c].expected
      BY <1>2 DEF Caches
    <3>4. op'[c].pc = IF op[c].kind = "mutate" THEN "base" ELSE "decide"
      BY <1>2 DEF Caches
    <3> QED
      BY <3>2, <3>3, <3>4 DEF Keeps
  <2> QED
    BY <1>0, <2>1 DEF OwnReads
<1>3. CASE Applies(c) \/ Snaps(c) \/ Logs(c) \/ Forgets(c)
  <2>1. op'[c].pc \in {"idle", "reread", "state", "log", "done"}
    <3>1. CASE Applies(c)
      BY <1>0, <3>1 DEF Applies, OpRecords
    <3>2. CASE Snaps(c) \/ Logs(c)
      BY <3>2, SnapsFields, LogsFields
    <3>3. CASE Forgets(c)
      BY <1>0, <3>3 DEF Forgets, Idle
    <3> QED
      BY <1>3, <3>1, <3>2, <3>3
  <2> QED
    BY <2>1 DEF OwnReads
<1>4. CASE Learns(c)
  <2>1. PICK b \in Branches : b = op[c].branch
    BY Reads
  <2>2. /\ op'[c].pc \in {"reread", "snap"} /\ op'[c].branch = b
        /\ op'[c].pc = "snap" => op'[c].seen = head[b]
        /\ UNCHANGED moves
    BY <1>4, <2>1, LearnsFields DEF LateKeeping, Learns, Quiet
  <2>3. PICK w : w = Workspace(c)
    OBVIOUS
  <2>4. PICK v : v = head[b]
    OBVIOUS
  <2>5. Covers(w, b, v)
    BY <2>4, HeadCovers DEF HistoryInv
  <2>6. Covers(w, b, v)'
    BY <2>2, <2>5 DEF Covers, OwnMoves
  <2>7. op'[c].pc = "snap" => Covers(Workspace(c), op[c].branch, op[c].seen)'
    BY <1>0, <2>2, <2>3, <2>4, <2>6
  <2> QED
    BY <2>2, <2>7 DEF OwnReads
<1> QED
  BY <1>1, <1>2, <1>3, <1>4 DEF Effects

\* The attempt that lost its compare-and-set saw the branch move.
LEMMA RefusedSawMove ==
    ASSUME Inv, HistoryInv, NEW c \in Clients, Late(c, op[c].expected),
           op[c].pc # "idle", op[c].tries \in 1..StagedRetries,
           CommitOf(head[op[c].branch]) # op[c].expected
    PROVE  op[c].since + Failed(c) <= Len(moves[op[c].branch])
<1>1. PICK b \in Branches : b = op[c].branch
  BY Reads
<1>2. /\ Len(moves[b]) \in Nat /\ op[c].since \in Nat /\ Failed(c) \in Int
      /\ op[c].since <= Len(moves[b])
      /\ head[b] = HeadAt(b, Len(moves[b]))
  BY <1>1, MovesTyped, Reads, BranchOpsAssumption
     DEF HistoryInv, Flow, HeadIsLast, OpRecords, Failed
<1>3. head[b] # op[c].expected
  <2>1. head[b] = Absent => op[c].expected = None /\ CommitOf(head[b]) = None
    BY <1>1 DEF HistoryInv, AbsentUnseen, CommitOf
  <2> QED
    BY <1>1, <2>1 DEF CommitOf
<1>4. CASE Failed(c) = 0
  BY <1>1, <1>2, <1>4
<1>5. CASE HeldSince(b, op[c].expected, op[c].since + Failed(c) - 1)
  <2>1. PICK i \in 0..Len(moves[b]) :
          op[c].since + Failed(c) - 1 <= i /\ op[c].expected = HeadAt(b, i)
    BY <1>5 DEF HeldSince
  <2>2. i # Len(moves[b])
    BY <1>2, <1>3, <2>1
  <2> QED
    BY <1>1, <1>2, <2>1, <2>2
<1> QED
  BY <1>1, <1>4, <1>5 DEF Late

LEMMA StagedStep ==
    ASSUME Inv, HistoryInv, NEW c \in Clients, OnlyOp(c), Effects(c), Staged(c)
    PROVE  Staged(c)'
<1>0. /\ op \in [Clients -> OpRecords] /\ op[c] \in OpRecords
      /\ Workspace(c)' = Workspace(c) /\ Workspace(c) \in Workspaces
      /\ op[c].since \in Nat /\ op[c].tries \in Int
      /\ StagedRetries \in Nat /\ StagedRetries >= 1
      /\ Failed(c) \in Int
  <2>1. op \in [Clients -> OpRecords] /\ op[c] \in OpRecords
    BY Reads DEF Inv, TypeOK
  <2>2. Workspace(c)' = Workspace(c) /\ Workspace(c) \in Workspaces
    BY Reads DEF Workspace
  <2>3. op[c].since \in Nat /\ op[c].tries \in Int
    BY <2>1 DEF OpRecords
  <2>4. StagedRetries \in Nat /\ StagedRetries >= 1
    BY BranchOpsAssumption
  <2> QED
    BY <2>1, <2>2, <2>3, <2>4 DEF Failed
<1>1. PICK b \in Branches : b = op[c].branch
  BY Reads
<1>2. PICK w \in Workspaces : w = Workspace(c)
  BY <1>0
<1>3. Len(moves[b]) \in Nat
  BY MovesTyped
\* What is late enough before a step that keeps its tries is so after it.
<1>4. ASSUME Keeps(c), UNCHANGED moves, NEW v
      PROVE  Late(c, v)' <=> Late(c, v)
  BY <1>4 DEF Keeps, Late, Failed, HeldSince, HeadAt
<1>5. CASE Starts(c)
  <2>1. op'[c].kind = "staged" => op'[c].pc = "state" /\ op'[c].tries = StagedRetries
    BY <1>5 DEF Starts
  <2>2. op'[c].kind = "staged" => Failed(c)' = 0 /\ op'[c].tries \in 1..StagedRetries
    BY <1>0, <2>1 DEF Failed
  <2>3. op'[c].kind = "staged" => \A v : Late(c, v)'
    BY <2>2 DEF Late
  <2> QED
    BY <2>1, <2>2, <2>3 DEF Staged
<1>6. CASE Prepares(c)
  <2>1. op'[c].kind = "staged" =>
          /\ op[c].kind = "staged" /\ op[c].pc = "decide" /\ op'[c].pc = "cas"
          /\ op'[c].expected = op[c].expected /\ op'[c].tries = op[c].tries
    BY <1>6 DEF Prepares, Keeps
  <2>2. PICK e : e = op[c].expected
    OBVIOUS
  <2>3. Late(c, e)' <=> Late(c, e)
    BY <1>4, <1>6 DEF Prepares, Quiet
  <2>4. op'[c].kind = "staged" => Late(c, op[c].expected)'
    BY <2>1, <2>2, <2>3 DEF Staged
  <2> QED
    BY <2>1, <2>4 DEF Staged
<1>7. CASE ReadsState(c)
  <2>1. Keeps(c) /\ Quiet /\ op[c].pc = "state"
    BY <1>7 DEF ReadsState
  <2>2. PICK s : s = snapshot[w][b]
    OBVIOUS
  <2>3. Late(c, s)' <=> Late(c, s)
    BY <1>4, <2>1 DEF Quiet
  <2>4. op[c].kind = "staged" => op[c].tries \in 1..StagedRetries /\ Late(c, s)
    BY <1>1, <1>2, <2>1, <2>2 DEF Staged
  <2>5. Failed(c)' = Failed(c)
    BY <2>1 DEF Keeps, Failed
  <2>6. s = NoSnap /\ Late(c, s) => Failed(c) = 0
    BY <1>1, NoSnapNeverHeld DEF Late
  <2>7. \/ s # NoSnap /\ op'[c].pc \in {"base", "decide"} /\ op'[c].expected = s
        \/ s = NoSnap /\ op'[c].pc \in {"cache", "decide"}
    BY <1>1, <1>2, <1>7, <2>2 DEF ReadsState
  <2>8. CASE s # NoSnap
    <3>1. op'[c].kind = "staged" => Late(c, op[c].expected)'
      BY <2>1, <2>3, <2>4, <2>7, <2>8 DEF Keeps
    <3> QED
      BY <2>1, <2>4, <2>7, <2>8, <3>1 DEF Staged, Keeps
  <2>9. CASE s = NoSnap
    <3>1. op'[c].kind = "staged" => Failed(c)' = 0
      BY <2>1, <2>4, <2>5, <2>6, <2>9 DEF Keeps
    <3>2. \A v : op'[c].kind = "staged" => Late(c, v)'
      BY <3>1 DEF Late
    <3> QED
      BY <2>1, <2>4, <2>7, <2>9, <3>1, <3>2 DEF Staged, Keeps
  <2> QED
    BY <2>8, <2>9
<1>8. CASE Caches(c)
  <2>1. op'[c].kind = "staged" =>
          /\ op[c].tries \in 1..StagedRetries /\ Failed(c)' = 0
          /\ op'[c].tries = op[c].tries
          /\ op'[c].pc \in {"base", "decide"}
    BY <1>8 DEF Caches, Keeps, Staged, Failed
  <2>2. op'[c].kind = "staged" => \A v : Late(c, v)'
    BY <2>1 DEF Late
  <2> QED
    BY <2>1, <2>2 DEF Staged
<1>9. CASE ReadsBase(c)
  <2>1. PICK e : e = op[c].expected
    OBVIOUS
  <2>2. Late(c, e)' <=> Late(c, e)
    BY <1>4, <1>9 DEF ReadsBase, Quiet
  <2>3. op'[c].kind = "staged" =>
          /\ op[c].tries \in 1..StagedRetries /\ op'[c].tries = op[c].tries
          /\ op'[c].pc = "decide" /\ op'[c].expected = e /\ Late(c, e)
    BY <1>9, <2>1 DEF ReadsBase, Keeps, Staged
  <2>4. op'[c].kind = "staged" => Late(c, op[c].expected)'
    BY <2>2, <2>3
  <2> QED
    BY <2>3, <2>4 DEF Staged
<1>10. CASE Ends(c)
  BY <1>10 DEF Ends, Keeps, Staged
<1>11. CASE Applies(c)
  <2>1. /\ op'[c].kind = op[c].kind /\ op'[c].tries = op[c].tries
        /\ op'[c].pc = "reread" /\ op'[c].moved /\ op[c].pc = "cas"
    BY <1>0, <1>11 DEF Applies, OpRecords
  <2> QED
    BY <2>1 DEF Staged
<1>12. CASE Learns(c)
  <2>1. /\ LateKeeping(c) /\ op'[c].tries = op[c].tries /\ UNCHANGED moves
        /\ op'[c].pc \in {"reread", "snap"} /\ op[c].pc \in {"cas", "reread"}
    BY <1>12, LearnsFields DEF Learns, Quiet
  <2>2. Failed(c)' = Failed(c)
    BY <2>1 DEF Failed
  <2>3. op[c].kind = "staged" => op[c].tries \in 1..StagedRetries
    BY <2>1 DEF Staged
  <2>4. CASE op[c].pc = "cas"
    <3>1. CommitOf(head[op[c].branch]) # op[c].expected /\ op'[c].pc = "reread"
      BY <1>12, <2>4, LearnsFields
    <3>2. op[c].kind = "staged" => op[c].since + Failed(c) <= Len(moves[b])
      BY <1>1, <2>3, <2>4, <3>1, RefusedSawMove DEF Staged
    <3> QED
      BY <1>1, <2>1, <2>2, <2>3, <3>1, <3>2 DEF Staged, LateKeeping
  <2>5. CASE op[c].pc = "reread"
    <3>1. op'[c].pc = "snap" /\ op'[c].seen = head[b]
      BY <1>1, <1>12, <2>5, LearnsFields
    <3>2. PICK v : v = head[b]
      OBVIOUS
    <3>3. PICK n \in Int : n = op[c].since + Failed(c)
      BY <1>0
    <3>4. op[c].kind = "staged" /\ ~op[c].moved => HeldSince(b, v, n)
      BY <1>1, <2>5, <3>2, <3>3, HeadHeld DEF Staged, HistoryInv
    <3>5. HeldSince(b, v, n)' <=> HeldSince(b, v, n)
      BY <2>1 DEF HeldSince, HeadAt
    <3>6. op'[c].kind = "staged" /\ ~op'[c].moved =>
            HeldSince(op[c].branch, op[c].seen, op[c].since + Failed(c))'
      BY <1>1, <2>1, <2>2, <3>1, <3>2, <3>3, <3>4, <3>5 DEF LateKeeping
    <3> QED
      BY <2>1, <2>3, <3>1, <3>6 DEF Staged, LateKeeping
  <2> QED
    BY <2>1, <2>4, <2>5
<1>13. CASE Snaps(c)
  <2>1. /\ LateKeeping(c) /\ op[c].pc = "snap" /\ UNCHANGED moves
    BY <1>13, SnapsFields DEF Snaps
  <2>2. op[c].kind = "staged" => op[c].tries \in 1..StagedRetries
    BY <2>1 DEF Staged
  <2>3. CASE op[c].moved
    BY <1>13, <2>1, <2>2, <2>3, SnapsFields DEF Staged, LateKeeping
  <2>4. CASE ~op[c].moved /\ op[c].kind = "staged"
    <3>1. PICK v : v = op[c].seen
      OBVIOUS
    <3>2. PICK n \in Int : n = op[c].since + Failed(c)
      BY <1>0
    <3>3. HeldSince(b, v, n)
      BY <1>1, <2>1, <2>4, <3>1, <3>2 DEF Staged
    <3>4. CASE op[c].tries > 1
      <4>1. op'[c].pc = "state" /\ op'[c].tries = op[c].tries - 1
        BY <1>13, <2>4, <3>4, SnapsFields
      <4>2. /\ op'[c].tries \in 1..StagedRetries
            /\ Failed(c)' = Failed(c) + 1
        BY <1>0, <2>2, <2>4, <3>4, <4>1 DEF Failed
      <4>3. op'[c].since + Failed(c)' - 1 = n
        BY <1>0, <2>1, <3>2, <4>2 DEF LateKeeping
      <4>4. snapshot'[w][b] = v
        <5>1. op[c].seen # Absent
          BY <2>1 DEF HistoryInv, Flow
        <5>2. snapshot' = [snapshot EXCEPT ![w][b] = v]
          BY <1>1, <1>2, <1>13, <3>1, <5>1 DEF Snaps
        <5>3. snapshot \in [Workspaces -> [Branches -> Values \union {NoSnap}]]
          BY DEF Inv, TypeOK
        <5> QED
          BY <5>2, <5>3
      <4>5. HeldSince(b, v, n)'
        BY <2>1, <3>3 DEF HeldSince, HeadAt
      <4>6. Late(c, snapshot[w][b])'
        BY <1>1, <2>1, <4>3, <4>4, <4>5 DEF Late, LateKeeping
      <4>7. Late(c, snapshot[Workspace(c)][op[c].branch])'
        BY <1>0, <1>1, <1>2, <2>1, <4>6 DEF LateKeeping
      <4> QED
        BY <4>1, <4>2, <4>7 DEF Staged
    <3>5. CASE ~(op[c].tries > 1)
      <4>1. /\ op'[c].pc = "done" /\ op'[c].tries = op[c].tries
            /\ op[c].tries = 1 /\ Failed(c) = StagedRetries - 1
        BY <1>0, <1>13, <2>2, <2>4, <3>5, SnapsFields DEF Failed
      <4>2. PICK i \in 0..Len(moves[b]) : n <= i
        BY <3>3 DEF HeldSince
      <4>3. Len(moves[b]) - op[c].since >= StagedRetries - 1
        BY <1>0, <1>3, <3>2, <4>1, <4>2
      <4> QED
        BY <1>1, <2>1, <2>2, <2>4, <4>1, <4>3 DEF Staged, LateKeeping
    <3> QED
      BY <3>4, <3>5
  <2>5. CASE op[c].kind # "staged"
    BY <2>1, <2>5 DEF Staged, LateKeeping
  <2> QED
    BY <2>3, <2>4, <2>5
<1>14. CASE Logs(c)
  BY <1>14, LogsFields DEF Staged, LateKeeping
<1>15. CASE Forgets(c)
  BY <1>0, <1>15 DEF Forgets, Idle, Staged
<1> QED
  BY <1>5, <1>6, <1>7, <1>8, <1>9, <1>10, <1>11, <1>12, <1>13, <1>14, <1>15 DEF Effects

\* c is between the update it made on b and the snapshot of it.
Settling(c, w, b) ==
    /\ Workspace(c) = w
    /\ op[c].branch = b
    /\ op[c].pc \in {"reread", "snap"}
    /\ AwaitsReflog(c)

LEMMA CoveredStays ==
    ASSUME Inv, NEW w \in Workspaces, NEW b \in Branches, Grows(b),
           OwnMoves(w, b)' = OwnMoves(w, b),
           snapshot'[w][b] = snapshot[w][b],
           unlogged'[w][b] = unlogged[w][b],
           Covers(w, b, snapshot[w][b]) \/ unlogged[w][b] > 0
    PROVE  Covered(w, b)'
<1>1. PICK v : v = snapshot[w][b]
  OBVIOUS
<1>2. Covers(w, b, v) => Covers(w, b, v)'
  BY CoversStay
<1>3. Covers(w, b, v)' => Covers(w, b, snapshot[w][b])'
  BY <1>1
<1> QED
  BY <1>1, <1>2, <1>3 DEF Covered

LEMMA CoveredStep ==
    ASSUME Inv, HistoryInv, NEW c \in Clients, OnlyOp(c),
           Effects(c) \/ (Quiet /\ UNCHANGED op),
           NEW w \in Workspaces, NEW b \in Branches, Alone(w),
           Workspace(c) = w => OwnReads(c),
           Covered(w, b)
    PROVE  Covered(w, b)'
<1>0. /\ op \in [Clients -> OpRecords] /\ op[c] \in OpRecords
      /\ op[c].branch \in Branches /\ Grows(b) /\ Flow(c)
      /\ snapshot \in [Workspaces -> [Branches -> Values \union {NoSnap}]]
      /\ unlogged \in [Workspaces -> [Branches -> Nat]]
  BY Reads, MovesGrow DEF Inv, TypeOK, HistoryInv
<1>1. \/ Covers(w, b, snapshot[w][b])
      \/ unlogged[w][b] > 0
      \/ \E d \in Clients : Settling(d, w, b)
  BY DEF Covered, Settling
<1>2. ASSUME NEW d \in Clients, Settling(d, w, b)'
      PROVE  Covered(w, b)'
  BY <1>2 DEF Settling, Covered, Workspace
<1>3. CASE Workspace(c) # w
  <2>1. /\ OwnMoves(w, b)' = OwnMoves(w, b)
        /\ snapshot'[w][b] = snapshot[w][b]
        /\ unlogged'[w][b] = unlogged[w][b]
    BY <1>3, Elsewhere
  <2>2. ASSUME NEW d \in Clients, Settling(d, w, b)
        PROVE  Settling(d, w, b)'
    BY <1>3, <2>2 DEF Settling, OnlyOp, AwaitsReflog, Workspace
  <2> QED
    BY <1>0, <1>1, <1>2, <2>1, <2>2, CoveredStays
<1>4. CASE Workspace(c) = w
  <2>0. \A d \in Clients : Settling(d, w, b) => Settling(c, w, b)
    BY <1>4, OnlyOne DEF Settling
  <2>1. CASE UNCHANGED <<snapshot, moves, unlogged>> /\ ~Settling(c, w, b)
    <3>1. OwnMoves(w, b)' = OwnMoves(w, b)
      BY <2>1 DEF OwnMoves
    <3> QED
      BY <1>0, <1>1, <2>0, <2>1, <3>1, CoveredStays
  <2>2. CASE \/ Starts(c) \/ Prepares(c) \/ ReadsState(c) \/ ReadsBase(c) \/ Ends(c)
    <3>1. op[c].pc \notin {"reread", "snap"}
      BY <2>2 DEF Starts, Prepares, ReadsState, ReadsBase, Ends
    <3>2. UNCHANGED <<snapshot, moves, unlogged>>
      BY <2>2 DEF Starts, Prepares, ReadsState, ReadsBase, Ends, Quiet
    <3> QED
      BY <2>1, <3>1, <3>2 DEF Settling
  <2>3. CASE Quiet /\ UNCHANGED op
    <3>1. Settling(c, w, b) => Settling(c, w, b)'
      BY <2>3 DEF Settling, AwaitsReflog, Workspace
    <3> QED
      BY <1>2, <2>1, <2>3, <3>1 DEF Quiet
  <2>4. CASE Caches(c)
    <3>1. /\ snapshot' = [snapshot EXCEPT ![w][op[c].branch] = op[c].expected]
          /\ UNCHANGED <<moves, unlogged>> /\ op[c].pc = "cache"
      BY <1>4, <2>4 DEF Caches
    <3>2. OwnMoves(w, b)' = OwnMoves(w, b) /\ ~Settling(c, w, b)
      BY <3>1 DEF OwnMoves, Settling
    <3>3. CASE b # op[c].branch
      <4>1. snapshot'[w][b] = snapshot[w][b]
        BY <1>0, <3>1, <3>3
      <4> QED
        BY <1>0, <1>1, <2>0, <3>1, <3>2, <4>1, CoveredStays
    <3>4. CASE b = op[c].branch
      <4>1. snapshot[w][b] = NoSnap
        BY <1>4, <3>1, <3>4 DEF OwnReads
      <4>2. OwnMoves(w, b) = {} \/ unlogged[w][b] > 0
        BY <1>1, <2>0, <3>2, <4>1, NoSnapCovers
      <4> QED
        BY <3>1, <3>2, <4>2 DEF Covered, Covers
    <3> QED
      BY <3>3, <3>4
  <2>5. CASE Applies(c)
    <3>1. /\ op'[c].branch = op[c].branch /\ op'[c].kind = op[c].kind
          /\ op'[c].pc = "reread" /\ op'[c].moved /\ op[c].pc = "cas"
          /\ UNCHANGED <<snapshot, unlogged>>
      BY <1>0, <2>5 DEF Applies, OpRecords
    <3>2. CASE b = op[c].branch /\ op[c].kind # "branch"
      <4>1. Settling(c, w, b)'
        BY <1>4, <3>1, <3>2 DEF Settling, AwaitsReflog, Workspace
      <4> QED
        BY <1>2, <4>1
    <3>3. CASE ~(b = op[c].branch /\ op[c].kind # "branch")
      <4>1. OwnMoves(w, b)' = OwnMoves(w, b)
        BY <2>5, <3>3, OwnMovesApplied
      <4>2. ~Settling(c, w, b)
        BY <3>1 DEF Settling
      <4> QED
        BY <1>0, <1>1, <2>0, <3>1, <4>1, <4>2, CoveredStays
    <3> QED
      BY <3>2, <3>3
  <2>6. CASE Learns(c)
    <3>1. LateKeeping(c) /\ UNCHANGED <<snapshot, moves, unlogged>>
          /\ op'[c].pc \in {"reread", "snap"}
      BY <2>6, LearnsFields DEF Learns, Quiet
    <3>2. Settling(c, w, b) => Settling(c, w, b)'
      BY <3>1 DEF LateKeeping, Settling, AwaitsReflog, Workspace
    <3> QED
      BY <1>2, <2>1, <3>1, <3>2
  <2>7. CASE Snaps(c)
    <3>1. op[c].pc = "snap" /\ op[c].seen # Absent /\ UNCHANGED <<moves, unlogged>>
      BY <1>0, <2>7 DEF Snaps, Flow
    <3>2. snapshot' = [snapshot EXCEPT ![w][op[c].branch] = op[c].seen]
      BY <1>4, <2>7, <3>1 DEF Snaps
    <3>3. OwnMoves(w, b)' = OwnMoves(w, b)
      BY <3>1 DEF OwnMoves
    <3>4. CASE b # op[c].branch
      <4>1. snapshot'[w][b] = snapshot[w][b] /\ ~Settling(c, w, b)
        BY <1>0, <3>2, <3>4 DEF Settling
      <4> QED
        BY <1>0, <1>1, <2>0, <3>1, <3>3, <4>1, CoveredStays
    <3>5. CASE b = op[c].branch
      <4>1. PICK v : v = op[c].seen
        OBVIOUS
      <4>2. snapshot'[w][b] = v
        BY <1>0, <3>2, <3>5, <4>1
      <4>3. Covers(w, b, v)
        BY <1>4, <3>1, <3>5, <4>1 DEF OwnReads
      <4>4. Covers(w, b, v)'
        BY <1>0, <3>3, <4>3, CoversStay
      <4>5. Covers(w, b, snapshot[w][b])'
        BY <4>2, <4>4
      <4> QED
        BY <4>5 DEF Covered
    <3> QED
      BY <3>4, <3>5
  <2>8. CASE Logs(c)
    <3>1. UNCHANGED <<snapshot, moves, unlogged>> /\ ~Settling(c, w, b)
      BY <2>8 DEF Logs, Settling
    <3> QED
      BY <2>1, <3>1
  <2>9. CASE Forgets(c)
    <3>1. UNCHANGED <<snapshot, moves>>
      BY <2>9 DEF Forgets
    <3>2. CASE Settling(c, w, b)
      <4>1. unlogged' = [unlogged EXCEPT ![w][b] = @ + 1]
        BY <1>4, <2>9, <3>2 DEF Forgets, Settling
      <4>2. unlogged'[w][b] > 0
        BY <1>0, <4>1
      <4> QED
        BY <4>2 DEF Covered
    <3>3. CASE ~Settling(c, w, b)
      <4>1. unlogged'[w][b] = unlogged[w][b] \/ unlogged'[w][b] > 0
        BY <1>0, <1>4, <2>9 DEF Forgets
      <4>2. OwnMoves(w, b)' = OwnMoves(w, b)
        BY <3>1 DEF OwnMoves
      <4>3. CASE unlogged'[w][b] > 0
        BY <4>3 DEF Covered
      <4>4. CASE unlogged'[w][b] = unlogged[w][b]
        BY <1>0, <1>1, <2>0, <3>1, <3>3, <4>2, <4>4, CoveredStays
      <4> QED
        BY <4>1, <4>3, <4>4
    <3> QED
      BY <3>2, <3>3
  <2> QED
    BY <2>2, <2>3, <2>4, <2>5, <2>6, <2>7, <2>8, <2>9 DEF Effects
<1> QED
  BY <1>3, <1>4

LEMMA AloneInit == Init => AloneInv
<1> SUFFICES ASSUME Init PROVE AloneInv
  OBVIOUS
<1>1. \A c \in Clients : OwnReads(c) /\ Staged(c)
  BY DEF Init, OwnReads, Staged, Idle
<1>2. \A w \in Workspaces, b \in Branches : Covered(w, b)
  BY DEF Init, Covered, Covers, OwnMoves
<1> QED
  BY <1>1, <1>2 DEF AloneInv

LEMMA AloneStep == Inv /\ HistoryInv /\ AloneInv /\ [Next]_vars => AloneInv'
<1> SUFFICES ASSUME Inv, HistoryInv, AloneInv, [Next]_vars PROVE AloneInv'
  OBVIOUS
<1>1. CASE UNCHANGED vars
  <2>1. ASSUME NEW c \in Clients, Alone(Workspace(c))
        PROVE  OwnReads(c)' /\ Staged(c)'
    <3>1. OwnReads(c) /\ Staged(c)
      BY <2>1 DEF AloneInv
    <3>2. OwnReads(c)'
      BY <1>1, <3>1 DEF vars, OwnReads, Covers, HeldSince, HeadAt, OwnMoves, Workspace
    <3>3. Staged(c)'
      BY <1>1, <3>1 DEF vars, Staged, Late, Failed, HeldSince, HeadAt, Workspace
    <3> QED
      BY <3>2, <3>3
  <2>2. ASSUME NEW w \in Workspaces, NEW b \in Branches, Alone(w)
        PROVE  Covered(w, b)'
    <3>1. Covered(w, b)
      BY <2>2 DEF AloneInv
    <3> QED
      BY <1>1, <3>1 DEF vars, Covered, Covers, HeldSince, HeadAt, OwnMoves, AwaitsReflog, Workspace
  <2> QED
    BY <2>1, <2>2 DEF AloneInv, Alone, Workspace
<1>2. CASE Next
  <2>1. PICK c \in Clients : Begin(c) \/ Work(c) \/ Crash(c)
    BY <1>2 DEF Next
  <2>2. OnlyOp(c) /\ (Effects(c) \/ (Quiet /\ UNCHANGED op))
    BY <2>1, StepEffects
  <2>3. ASSUME NEW d \in Clients, Alone(Workspace(d))
        PROVE  OwnReads(d)' /\ Staged(d)'
    <3>1. OwnReads(d) /\ Staged(d)
      BY <2>3 DEF AloneInv
    <3>2. CASE d # c
      BY <2>2, <2>3, <3>1, <3>2, AloneOfOthers
    <3>3. CASE d = c /\ Effects(c)
      BY <2>2, <3>1, <3>3, OwnReadsStep, StagedStep
    <3>4. CASE Quiet /\ UNCHANGED op
      BY SMTT(30), <3>1, <3>4 DEF Quiet, OwnReads, Staged, Late, Failed, Covers, HeldSince, HeadAt,
         OwnMoves, Workspace
    <3> QED
      BY <2>2, <3>2, <3>3, <3>4
  <2>4. ASSUME NEW w \in Workspaces, NEW b \in Branches, Alone(w)
        PROVE  Covered(w, b)'
    <3>1. Covered(w, b)
      BY <2>4 DEF AloneInv
    <3>2. Workspace(c) = w => OwnReads(c)
      BY <2>4 DEF AloneInv
    <3> QED
      BY <2>2, <2>4, <3>1, <3>2, CoveredStep
  <2> QED
    BY <2>3, <2>4 DEF AloneInv, Alone, Workspace
<1> QED
  BY <1>1, <1>2

LEMMA AloneInvariance == Spec => []AloneInv
  BY AloneInit, AloneStep, Invariance, HistoryInvariance, PTL DEF Spec

(* SnapshotCoversOwnMoves: once an update of a process that is alone in    *)
(* its workspace has run to its end, the snapshot is never older than what *)
(* that update wrote.                                                      *)
THEOREM OwnMovesCovered == Spec => []SnapshotCoversOwnMoves
<1>1. AloneInv => SnapshotCoversOwnMoves
  BY DEF AloneInv, Covered, Covers, SnapshotCoversOwnMoves
<1> QED
  BY <1>1, AloneInvariance, PTL

(* StagedConflictMeansRaces: commit --staged reports a conflict only after *)
(* the branch moved under all its attempts but the first.                  *)
THEOREM StagedConflictsMeanRaces == Spec => []StagedConflictMeansRaces
<1>1. AloneInv => StagedConflictMeansRaces
  BY DEF AloneInv, Staged, StagedConflictMeansRaces
<1> QED
  BY <1>1, AloneInvariance, PTL

(* MutationBuiltOnParent: the tree that rm and mv commit was computed from *)
(* the very commit the compare-and-set replaces, although the two are read *)
(* one after the other.                                                    *)
THEOREM MutationsBuiltOnParent == Spec => MutationBuiltOnParent
<1>1. AloneInv /\ [Next]_vars =>
        [\A c \in Clients :
           CasApplied(c) /\ op[c].kind = "mutate" /\ Alone(Workspace(c)) =>
               op[c].target = op[c].expected]_vars
  BY DEF AloneInv, OwnReads, CasApplied
<1> QED
  BY <1>1, AloneInvariance, PTL DEF Spec, MutationBuiltOnParent

-----------------------------------------------------------------------------
(* An operation runs out of steps.                                         *)

Rank(pc) ==
    CASE pc = "target" -> 10 [] pc = "state" -> 9
      [] pc = "cache" -> 8   [] pc = "base" -> 7
      [] pc = "decide" -> 6  [] pc = "cas" -> 5
      [] pc = "reread" -> 4  [] pc = "snap" -> 3
      [] pc = "log" -> 2     [] pc = "done" -> 1
      [] OTHER -> 0

\* Steps an operation can still take at most: seven for each attempt that
\* may follow, and those of the attempt it is in.
StepsLeft(o) == 7 * o.tries + Rank(o.pc)

TriesInBounds ==
    \A c \in Clients :
        /\ op[c].pc # "idle" => op[c].tries \in 1 .. StagedRetries
        /\ op[c].pc = "idle" => op[c].tries = 0

LEMMA StepsBounded ==
    ASSUME Inv, TriesInBounds, NEW c \in Clients
    PROVE  StepsLeft(op[c]) \in 0 .. 7 * StagedRetries + 10
<1>1. StagedRetries \in Nat \ {0}
  BY BranchOpsAssumption
<1>2. op[c].tries \in 0 .. StagedRetries
  <2>1. CASE op[c].pc = "idle"
    BY <1>1, <2>1 DEF TriesInBounds
  <2>2. CASE op[c].pc # "idle"
    BY <1>1, <2>2 DEF TriesInBounds
  <2> QED
    BY <2>1, <2>2
<1>3. Rank(op[c].pc) \in 0 .. 10
  BY DEF Rank
<1> QED
  BY <1>1, <1>2, <1>3 DEF StepsLeft

\* A step of its own brings an operation closer to its end.
LEMMA EffectsCountDown ==
    ASSUME Inv, TriesInBounds, NEW c \in Clients, OnlyOp(c), Effects(c), op[c].pc # "idle"
    PROVE  /\ StepsLeft(op'[c]) < StepsLeft(op[c])
           /\ op'[c].pc # "idle" => op'[c].tries \in 1 .. StagedRetries
           /\ op'[c].pc = "idle" => op'[c].tries = 0
<1> DEFINE o == op[c]
           n == op'[c]
<1>1. /\ o.tries \in 1 .. StagedRetries /\ StagedRetries \in Nat
      /\ op \in [Clients -> OpRecords] /\ o \in OpRecords
  BY BranchOpsAssumption DEF TriesInBounds, Inv, TypeOK
<1>2. CASE Prepares(c) \/ ReadsState(c) \/ Caches(c) \/ ReadsBase(c) \/ Ends(c)
  <2>1. n.tries = o.tries
    BY <1>2 DEF Prepares, ReadsState, Caches, ReadsBase, Ends, Keeps
  <2>2. \/ o.pc = "target" /\ n.pc \in {"state", "cas", "done"}
        \/ o.pc = "state" /\ n.pc \in {"cache", "base", "decide", "done"}
        \/ o.pc = "cache" /\ n.pc \in {"base", "decide"}
        \/ o.pc = "base" /\ n.pc \in {"decide", "done"}
        \/ o.pc = "decide" /\ n.pc \in {"cas", "done"}
        \/ o.pc = "cas" /\ n.pc = "done"
    BY <1>2 DEF Prepares, ReadsState, Caches, ReadsBase, Ends
  <2> HIDE DEF o, n
  <2> QED
    BY <1>1, <2>1, <2>2 DEF StepsLeft, Rank, o, n
<1>3. CASE Applies(c) \/ Learns(c) \/ Logs(c)
  <2>1. /\ n.tries = o.tries
        /\ \/ o.pc = "cas" /\ n.pc = "reread"
           \/ o.pc = "reread" /\ n.pc = "snap"
           \/ o.pc = "log" /\ n.pc = "done"
    <3>1. CASE Applies(c)
      <4>1. o.pc = "cas" /\ op' = [op EXCEPT ![c] = [op[c] EXCEPT !.pc = "reread", !.moved = TRUE]]
        BY <3>1 DEF Applies
      <4> QED
        BY <1>1, <4>1 DEF OpRecords
    <3>2. CASE Learns(c) \/ Logs(c)
      BY <3>2, LearnsFields, LogsFields
    <3> QED
      BY <1>3, <3>1, <3>2
  <2> QED
    BY <1>1, <2>1 DEF StepsLeft, Rank
<1>4. CASE Snaps(c)
  <2>1. /\ o.pc = "snap"
        /\ \/ n.tries = o.tries /\ n.pc \in {"done", "log"}
           \/ o.tries > 1 /\ n.tries = o.tries - 1 /\ n.pc = "state"
    BY <1>4, SnapsFields
  <2> QED
    BY <1>1, <2>1 DEF StepsLeft, Rank
<1>5. CASE Forgets(c)
  <2>1. n.tries = 0 /\ n.pc = "idle"
    BY <1>1, <1>5 DEF Forgets, Idle
  <2>2. StepsLeft(n) = 0
    BY <2>1 DEF StepsLeft, Rank
  <2>3. StepsLeft(o) >= 7
    BY <1>1 DEF StepsLeft, Rank
  <2>4. StepsLeft(o) > 0
    BY <1>1 DEF StepsLeft, Rank
  <2> QED
    BY <2>1, <2>2, <2>4
<1>6. ~ Starts(c)
  BY DEF Starts
<1> QED
  BY <1>2, <1>3, <1>4, <1>5, <1>6 DEF Effects

LEMMA BusyMeans ==
    ASSUME NEW c \in Clients
    PROVE  /\ Begin(c) => op[c].pc = "idle"
           /\ Work(c) \/ Crash(c) => op[c].pc # "idle"
<1>1. Begin(c) => op[c].pc = "idle"
  BY DEF Begin, StartCommit, StartImport, StartMutate, StartPromote, StartBranch,
     StartDelete, Checkout, StartMerge, StartReset, Start
<1>2. Work(c) => op[c].pc # "idle"
  BY DEF Work, ResolveMergeTarget, ReadResetState, ReadHeadCommit, UseSnapshot,
     StateOfUnborn, ReadState, CacheState, ReadBase, Extend, Join, FastForward,
     CasApplied, CasRefused, Reread, WriteSnapshot, AppendReflog, Return
<1> QED
  BY <1>1, <1>2 DEF Crash

LEMMA TriesStep == Inv /\ TriesInBounds /\ [Next]_vars => TriesInBounds'
<1> SUFFICES ASSUME Inv, TriesInBounds, [Next]_vars PROVE TriesInBounds'
  OBVIOUS
<1>1. CASE UNCHANGED vars
  BY <1>1 DEF vars, TriesInBounds
<1>2. CASE Next
  <2>1. PICK c \in Clients : Begin(c) \/ Work(c) \/ Crash(c)
    BY <1>2 DEF Next
  <2>2. OnlyOp(c) /\ (Effects(c) \/ (Quiet /\ UNCHANGED op))
    BY <2>1, StepEffects
  <2>3. ASSUME NEW d \in Clients
        PROVE  /\ op'[d].pc # "idle" => op'[d].tries \in 1 .. StagedRetries
               /\ op'[d].pc = "idle" => op'[d].tries = 0
    <3>1. CASE op'[d] = op[d]
      BY <3>1 DEF TriesInBounds
    <3>2. CASE op'[d] # op[d] /\ op[d].pc # "idle"
      BY <2>2, <3>2, EffectsCountDown DEF OnlyOp
    <3>3. CASE op'[d] # op[d] /\ op[d].pc = "idle"
      <4>1. d = c /\ Effects(c)
        BY <2>2, <3>3 DEF OnlyOp
      <4>2. Starts(c)
        BY <3>3, <4>1 DEF Effects, Prepares, ReadsState, Caches, ReadsBase, Ends, Applies,
           Learns, Snaps, Logs, Forgets
      <4>3. op'[c].pc # "idle" /\ op'[c].tries \in {1, StagedRetries}
        BY <4>2 DEF Starts
      <4> QED
        BY <4>1, <4>3, BranchOpsAssumption
    <3> QED
      BY <3>1, <3>2, <3>3
  <2> QED
    BY <2>3 DEF TriesInBounds
<1> QED
  BY <1>1, <1>2

LEMMA TriesInvariance == Spec => []TriesInBounds
<1>1. Init => TriesInBounds
  BY DEF Init, TriesInBounds, Idle
<1> QED
  BY <1>1, TriesStep, Invariance, PTL DEF Spec

(* The retry loops are bounded, and nothing another process does prolongs  *)
(* an operation: whatever the refs and snapshots it reads, each step of    *)
(* its own, conflicts and retries included, leaves it fewer, out of seven  *)
(* for each of _STAGED_COMMIT_RETRIES and ten, and the steps of the others *)
(* leave it as it is.  What OpFinishes needs besides is that it goes on.   *)
THEOREM OperationsRunOut ==
    Spec => /\ [](\A c \in Clients : StepsLeft(op[c]) \in 0 .. 7 * StagedRetries + 10)
            /\ [][\A c \in Clients :
                    IF Work(c) \/ Crash(c) THEN StepsLeft(op[c]') < StepsLeft(op[c])
                    ELSE op[c].pc = "idle" \/ op[c]' = op[c]]_vars
<1>1. Inv /\ TriesInBounds =>
        \A c \in Clients : StepsLeft(op[c]) \in 0 .. 7 * StagedRetries + 10
  BY StepsBounded
<1>2. Inv /\ TriesInBounds /\ [Next]_vars =>
        [\A c \in Clients :
           IF Work(c) \/ Crash(c) THEN StepsLeft(op[c]') < StepsLeft(op[c])
           ELSE op[c].pc = "idle" \/ op[c]' = op[c]]_vars
  <2> SUFFICES ASSUME Inv, TriesInBounds, Next, NEW c \in Clients
               PROVE  IF Work(c) \/ Crash(c) THEN StepsLeft(op[c]') < StepsLeft(op[c])
                      ELSE op[c].pc = "idle" \/ op[c]' = op[c]
    OBVIOUS
  <2>1. CASE Work(c) \/ Crash(c)
    <3>1. op[c].pc # "idle" /\ OnlyOp(c) /\ (Effects(c) \/ (Quiet /\ UNCHANGED op))
      BY <2>1, BusyMeans, StepEffects
    <3>2. Effects(c)
      <4>1. CASE Work(c)
        BY <4>1, WorkEffects
      <4>2. CASE Crash(c)
        BY <4>2 DEF Crash, client, store, Forgets, Effects
      <4> QED
        BY <2>1, <4>1, <4>2
    <3> QED
      BY <2>1, <3>1, <3>2, EffectsCountDown
  <2>2. CASE ~ (Work(c) \/ Crash(c))
    <3>1. PICK d \in Clients : Begin(d) \/ Work(d) \/ Crash(d)
      BY DEF Next
    <3>2. CASE d = c
      BY <2>2, <3>1, <3>2, BusyMeans
    <3>3. CASE d # c
      BY <2>2, <3>1, <3>3, StepEffects DEF OnlyOp
    <3> QED
      BY <3>2, <3>3
  <2> QED
    BY <2>1, <2>2
<1> QED
  BY <1>1, <1>2, TriesInvariance, Invariance, PTL DEF Spec
=============================================================================
