-------------------------- MODULE LocalRefCasProofs --------------------------
(***************************************************************************)
(* For any number of processes, branches and commits, compare-and-set on a *)
(* local repository is the atomic register of RefCas.                      *)
(*                                                                         *)
(* The argument: the flock makes "compare ... rename" exclusive, so the    *)
(* value that was compared is still there when it is replaced; the rename  *)
(* is then the instant at which the abstract call takes effect.            *)
(* Every path under the flock is short and ends in its release.            *)
(***************************************************************************)
EXTENDS LocalRefCas, TLAPS

(* A call has its result from the comparison that failed, the write that   *)
(* failed, or the rename on.                                               *)
ResultFollowsPc ==
    \A c \in Clients :
        /\ proc[c].pc \in {"lock", "compare", "write", "replace"} =>
               proc[c].result = "pending"
        /\ proc[c].pc = "unlock" => proc[c].result # "pending"

Inv == TypeOK /\ LockDiscipline /\ ComparedValueStands /\ ResultFollowsPc

-----------------------------------------------------------------------------
(* Replacing the record of one process by a well-typed one keeps proc      *)
(* well-typed.                                                             *)
LEMMA ProcUpdate ==
    ASSUME TypeOK, NEW c \in Clients, NEW rec \in Procs,
           proc' = [proc EXCEPT ![c] = rec],
           rec.pc # "idle" => rec.branch \in Branches
    PROVE  /\ proc' \in [Clients -> Procs]
           /\ \A d \in Clients : proc'[d].pc # "idle" => proc'[d].branch \in Branches
  BY DEF TypeOK

(* No step of a call, failing or dying, leaves the types of the state.     *)
LEMMA TypeStep == TypeOK /\ [Next]_vars => TypeOK'
<1> SUFFICES ASSUME TypeOK, [Next]_vars PROVE TypeOK'
  OBVIOUS
<1> USE LocalRefCasAssumption
<1>1. CASE UNCHANGED vars
  BY <1>1 DEF vars, TypeOK
<1>2. ASSUME NEW c \in Clients, NEW b \in Branches,
             NEW expected \in Values, NEW new \in Values,
             Call(c, b, expected, new)
      PROVE  TypeOK'
  BY <1>2 DEF Call, TypeOK, Procs, Values
<1>3. ASSUME NEW c \in Clients, Lock(c) PROVE TypeOK'
  <2> DEFINE rec == [proc[c] EXCEPT !.pc = "compare"]
  <2>1. rec \in Procs
    BY DEF TypeOK, Procs
  <2>2. proc' = [proc EXCEPT ![c] = rec]
    BY <1>3 DEF TypeOK, Lock, Step
  <2>3. rec.branch \in Branches
    BY <1>3 DEF TypeOK, Procs, Lock
  <2> HIDE DEF rec
  <2> QED
    BY <1>3, <2>1, <2>2, <2>3, ProcUpdate DEF TypeOK, Lock
<1>4. ASSUME NEW c \in Clients, CompareEqual(c) PROVE TypeOK'
  <2> DEFINE rec == [proc[c] EXCEPT !.pc = "write"]
  <2>1. rec \in Procs
    BY DEF TypeOK, Procs
  <2>2. proc' = [proc EXCEPT ![c] = rec]
    BY <1>4 DEF TypeOK, CompareEqual, Step
  <2>3. rec.branch \in Branches
    BY <1>4 DEF TypeOK, Procs, CompareEqual
  <2> HIDE DEF rec
  <2> QED
    BY <1>4, <2>1, <2>2, <2>3, ProcUpdate DEF TypeOK, CompareEqual
<1>5. ASSUME NEW c \in Clients, CompareDifferent(c) PROVE TypeOK'
  <2> DEFINE rec == [proc[c] EXCEPT !.pc = "unlock", !.result = "false"]
  <2>1. rec \in Procs
    BY DEF TypeOK, Procs
  <2>2. proc' = [proc EXCEPT ![c] = rec]
    BY <1>5 DEF TypeOK, CompareDifferent
  <2>3. rec.branch \in Branches
    BY <1>5 DEF TypeOK, Procs, CompareDifferent
  <2> HIDE DEF rec
  <2> QED
    BY <1>5, <2>1, <2>2, <2>3, ProcUpdate DEF TypeOK, CompareDifferent
<1>6. ASSUME NEW c \in Clients, WriteFails(c) PROVE TypeOK'
  <2> DEFINE rec == [proc[c] EXCEPT !.pc = "unlock", !.result = "error"]
  <2>1. rec \in Procs
    BY DEF TypeOK, Procs
  <2>2. proc' = [proc EXCEPT ![c] = rec]
    BY <1>6 DEF TypeOK, WriteFails
  <2>3. rec.branch \in Branches
    BY <1>6 DEF TypeOK, Procs, WriteFails
  <2> HIDE DEF rec
  <2> QED
    BY <1>6, <2>1, <2>2, <2>3, ProcUpdate DEF TypeOK, WriteFails
<1>7. ASSUME NEW c \in Clients, Replace(c) PROVE TypeOK'
  <2> DEFINE rec == [proc[c] EXCEPT !.pc = "unlock", !.temp = None, !.result = "true"]
  <2>1. rec \in Procs
    BY DEF TypeOK, Procs
  <2>2. proc' = [proc EXCEPT ![c] = rec]
    BY <1>7 DEF TypeOK, Replace
  <2>3. rec.branch \in Branches
    BY <1>7 DEF TypeOK, Procs, Replace
  <2> HIDE DEF rec
  <2> QED
    BY <1>7, <2>1, <2>2, <2>3, ProcUpdate DEF TypeOK, Replace, Values, Procs
<1>8. ASSUME NEW c \in Clients, ReplaceFails(c) PROVE TypeOK'
  <2> DEFINE rec == [proc[c] EXCEPT !.pc = "unlock", !.temp = None, !.result = "error"]
  <2>1. rec \in Procs
    BY DEF TypeOK, Procs
  <2>2. proc' = [proc EXCEPT ![c] = rec]
    BY <1>8 DEF TypeOK, ReplaceFails
  <2>3. rec.branch \in Branches
    BY <1>8 DEF TypeOK, Procs, ReplaceFails
  <2> HIDE DEF rec
  <2> QED
    BY <1>8, <2>1, <2>2, <2>3, ProcUpdate DEF TypeOK, ReplaceFails
<1>9. ASSUME NEW c \in Clients, WriteTemp(c) PROVE TypeOK'
  <2>1. PICK name \in TempNames :
          /\ temps' = temps \union {name}
          /\ proc' = [proc EXCEPT ![c].pc = "replace", ![c].temp = name]
    BY <1>9 DEF WriteTemp
  <2> DEFINE rec == [proc[c] EXCEPT !.pc = "replace", !.temp = name]
  <2>2. rec \in Procs
    BY DEF TypeOK, Procs
  <2>3. proc' = [proc EXCEPT ![c] = rec]
    BY <2>1 DEF TypeOK
  <2>4. rec.branch \in Branches
    BY <1>9 DEF TypeOK, Procs, WriteTemp
  <2> HIDE DEF rec
  <2> QED
    BY <1>9, <2>1, <2>2, <2>3, <2>4, ProcUpdate DEF TypeOK, WriteTemp
<1>10. ASSUME NEW c \in Clients, Unlock(c) PROVE TypeOK'
  BY <1>10 DEF Unlock, TypeOK, Procs, Values, Idle
<1>11. ASSUME NEW c \in Clients, Crash(c) PROVE TypeOK'
  BY <1>11 DEF Crash, TypeOK, Procs, Values, Idle
<1> QED
  BY <1>1, <1>2, <1>3, <1>4, <1>5, <1>6, <1>7, <1>8, <1>9, <1>10, <1>11 DEF Next, Work

(* The processes, the lock and the files keep their types for ever.        *)
THEOREM TypeCorrect == Spec => []TypeOK
<1>1. Init => TypeOK
  BY LocalRefCasAssumption DEF Init, TypeOK, Procs, Idle, Values
<1> QED
  BY <1>1, TypeStep, PTL DEF Spec
-----------------------------------------------------------------------------
(* The lock holder is the one process between compare and unlock, and what *)
(* it compared still stands.  Neither is inductive without the other: only *)
(* the lock keeps a second process from replacing the compared file.       *)
LEMMA InvStep == Inv /\ [Next]_vars => Inv'
<1> SUFFICES ASSUME Inv, [Next]_vars
             PROVE  LockDiscipline' /\ ComparedValueStands' /\ ResultFollowsPc'
  BY TypeStep DEF Inv
<1> USE LocalRefCasAssumption
<1>0. TypeOK /\ LockDiscipline /\ ComparedValueStands /\ ResultFollowsPc
  BY DEF Inv
<1>1. CASE UNCHANGED vars
  BY <1>0, <1>1 DEF vars, LockDiscipline, ComparedValueStands, ResultFollowsPc, CommitOf
<1>2. ASSUME NEW c \in Clients, NEW b \in Branches,
             NEW expected \in Values, NEW new \in Values,
             Call(c, b, expected, new)
      PROVE  LockDiscipline' /\ ComparedValueStands' /\ ResultFollowsPc'
  BY <1>0, <1>2 DEF Call, TypeOK, LockDiscipline, ComparedValueStands,
                    ResultFollowsPc, CommitOf, Critical
<1>3. ASSUME NEW c \in Clients, Lock(c)
      PROVE  LockDiscipline' /\ ComparedValueStands' /\ ResultFollowsPc'
  <2>1. LockDiscipline'
    BY <1>0, <1>3 DEF Lock, Step, TypeOK, LockDiscipline, Critical
  <2>2. ComparedValueStands'
    BY <1>0, <1>3 DEF Lock, Step, TypeOK, Procs, LockDiscipline, ComparedValueStands, CommitOf, Critical
  <2>3. ResultFollowsPc'
    BY <1>0, <1>3 DEF Lock, Step, TypeOK, Procs, ResultFollowsPc
  <2> QED
    BY <2>1, <2>2, <2>3
<1>4. ASSUME NEW c \in Clients, CompareEqual(c)
      PROVE  LockDiscipline' /\ ComparedValueStands' /\ ResultFollowsPc'
  <2>1. LockDiscipline'
    BY <1>0, <1>4 DEF CompareEqual, Step, TypeOK, LockDiscipline, Critical
  <2>2. ComparedValueStands'
    BY <1>0, <1>4 DEF CompareEqual, Step, TypeOK, Procs, LockDiscipline, ComparedValueStands, CommitOf, Critical
  <2>3. ResultFollowsPc'
    BY <1>0, <1>4 DEF CompareEqual, Step, TypeOK, Procs, ResultFollowsPc
  <2> QED
    BY <2>1, <2>2, <2>3
<1>5. ASSUME NEW c \in Clients, CompareDifferent(c)
      PROVE  LockDiscipline' /\ ComparedValueStands' /\ ResultFollowsPc'
  <2>1. LockDiscipline'
    BY <1>0, <1>5 DEF CompareDifferent, TypeOK, LockDiscipline, Critical
  <2>2. ComparedValueStands'
    BY <1>0, <1>5 DEF CompareDifferent, TypeOK, Procs, LockDiscipline, ComparedValueStands, CommitOf, Critical
  <2>3. ResultFollowsPc'
    BY <1>0, <1>5 DEF CompareDifferent, TypeOK, Procs, ResultFollowsPc
  <2> QED
    BY <2>1, <2>2, <2>3
<1>6. ASSUME NEW c \in Clients, WriteTemp(c)
      PROVE  LockDiscipline' /\ ComparedValueStands' /\ ResultFollowsPc'
  <2>1. LockDiscipline'
    BY <1>0, <1>6 DEF WriteTemp, TypeOK, LockDiscipline, Critical
  <2>2. ComparedValueStands'
    BY <1>0, <1>6 DEF WriteTemp, TypeOK, Procs, LockDiscipline, ComparedValueStands, CommitOf, Critical
  <2>3. ResultFollowsPc'
    BY <1>0, <1>6 DEF WriteTemp, TypeOK, Procs, ResultFollowsPc
  <2> QED
    BY <2>1, <2>2, <2>3
<1>7. ASSUME NEW c \in Clients, WriteFails(c)
      PROVE  LockDiscipline' /\ ComparedValueStands' /\ ResultFollowsPc'
  <2>1. LockDiscipline'
    BY <1>0, <1>7 DEF WriteFails, TypeOK, LockDiscipline, Critical
  <2>2. ComparedValueStands'
    BY <1>0, <1>7 DEF WriteFails, TypeOK, Procs, LockDiscipline, ComparedValueStands, CommitOf, Critical
  <2>3. ResultFollowsPc'
    BY <1>0, <1>7 DEF WriteFails, TypeOK, Procs, ResultFollowsPc
  <2> QED
    BY <2>1, <2>2, <2>3
<1>8. ASSUME NEW c \in Clients, Replace(c)
      PROVE  LockDiscipline' /\ ComparedValueStands' /\ ResultFollowsPc'
  <2>1. LockDiscipline'
    BY <1>0, <1>8 DEF Replace, TypeOK, LockDiscipline, Critical
  <2>2. ComparedValueStands'
    BY <1>0, <1>8 DEF Replace, TypeOK, Procs, LockDiscipline, ComparedValueStands, CommitOf, Critical
  <2>3. ResultFollowsPc'
    BY <1>0, <1>8 DEF Replace, TypeOK, Procs, ResultFollowsPc
  <2> QED
    BY <2>1, <2>2, <2>3
<1>9. ASSUME NEW c \in Clients, ReplaceFails(c)
      PROVE  LockDiscipline' /\ ComparedValueStands' /\ ResultFollowsPc'
  <2>1. LockDiscipline'
    BY <1>0, <1>9 DEF ReplaceFails, TypeOK, LockDiscipline, Critical
  <2>2. ComparedValueStands'
    BY <1>0, <1>9 DEF ReplaceFails, TypeOK, Procs, LockDiscipline, ComparedValueStands, CommitOf, Critical
  <2>3. ResultFollowsPc'
    BY <1>0, <1>9 DEF ReplaceFails, TypeOK, Procs, ResultFollowsPc
  <2> QED
    BY <2>1, <2>2, <2>3
<1>10. ASSUME NEW c \in Clients, Unlock(c)
      PROVE  LockDiscipline' /\ ComparedValueStands' /\ ResultFollowsPc'
  <2>1. LockDiscipline'
    BY <1>0, <1>10 DEF Unlock, Idle, TypeOK, LockDiscipline, Critical
  <2>2. ComparedValueStands'
    BY <1>0, <1>10 DEF Unlock, Idle, TypeOK, Procs, LockDiscipline, ComparedValueStands, CommitOf, Critical
  <2>3. ResultFollowsPc'
    BY <1>0, <1>10 DEF Unlock, Idle, TypeOK, Procs, ResultFollowsPc
  <2> QED
    BY <2>1, <2>2, <2>3
<1>11. ASSUME NEW c \in Clients, Crash(c)
      PROVE  LockDiscipline' /\ ComparedValueStands' /\ ResultFollowsPc'
  <2>1. LockDiscipline'
    BY <1>0, <1>11 DEF Crash, Idle, TypeOK, LockDiscipline, Critical
  <2>2. ComparedValueStands'
    BY <1>0, <1>11 DEF Crash, Idle, TypeOK, Procs, LockDiscipline, ComparedValueStands, CommitOf, Critical
  <2>3. ResultFollowsPc'
    BY <1>0, <1>11 DEF Crash, Idle, TypeOK, Procs, ResultFollowsPc
  <2> QED
    BY <2>1, <2>2, <2>3
<1> QED
  BY <1>1, <1>2, <1>3, <1>4, <1>5, <1>6, <1>7, <1>8, <1>9, <1>10, <1>11 DEF Next, Work

LEMMA InvInit == Init => Inv
  BY LocalRefCasAssumption
     DEF Init, Inv, TypeOK, LockDiscipline, ComparedValueStands, ResultFollowsPc,
         Procs, Idle, Values, Critical

LEMMA Invariance == Spec => []Inv
  BY InvInit, InvStep, PTL DEF Spec

(* The flock is held exactly by the process between compare and unlock,    *)
(* whoever else calls, fails or dies.                                      *)
THEOREM LockIsExclusive == Spec => []LockDiscipline
<1>1. Inv => LockDiscipline
  BY DEF Inv
<1> QED
  BY <1>1, Invariance, PTL

(* The compared value is what the rename replaces.                         *)
THEOREM NoStaleCompare == Spec => []ComparedValueStands
<1>1. Inv => ComparedValueStands
  BY DEF Inv
<1> QED
  BY <1>1, Invariance, PTL

-----------------------------------------------------------------------------
(* Each step of the adapter is a step of the register or none of it: the   *)
(* rename is the instant the call takes effect, the comparison that fails  *)
(* the one it is refused.                                                  *)
LEMMA RegisterStep == Inv /\ [Next]_vars => [Register!Next]_(Register!vars)
<1> SUFFICES ASSUME Inv, [Next]_vars
             PROVE  Register!Next \/ UNCHANGED Register!vars
  BY DEF Inv
<1> USE LocalRefCasAssumption
<1>0. TypeOK /\ LockDiscipline /\ ComparedValueStands /\ ResultFollowsPc
  BY DEF Inv
<1> USE DEF Register!vars, Register!NoCall, Register!Values
<1>1. CASE UNCHANGED vars
  BY <1>1 DEF vars, CommitOf
<1>2. ASSUME NEW c \in Clients, NEW b \in Branches,
             NEW expected \in Values, NEW new \in Values,
             Call(c, b, expected, new)
      PROVE  Register!Invoke(c)
  <2> DEFINE call == [d \in Clients |->
               IF proc[d].pc = "idle" \/ proc[d].result = "error"
               THEN [result |-> "idle"]
               ELSE [branch |-> proc[d].branch, expected |-> proc[d].expected,
                     new |-> proc[d].new, result |-> proc[d].result]]
  <2>1. call[c] = Register!NoCall
    BY <1>2 DEF Call
  <2>2. UNCHANGED [b_1 \in Branches |-> CommitOf(file[b_1])]
    BY <1>2 DEF Call, CommitOf
  <2>3. call' = [call EXCEPT ![c] = [branch |-> b, expected |-> expected,
                                     new |-> new, result |-> "pending"]]
    BY <1>0, <1>2 DEF Call, TypeOK
  <2>4. expected \in Register!Values /\ new \in Register!Values
    BY DEF Values
  <2> QED
    BY <2>1, <2>2, <2>3, <2>4 DEF Register!Invoke
<1>3. ASSUME NEW c \in Clients, Lock(c) PROVE UNCHANGED Register!vars
  BY <1>0, <1>3 DEF Lock, Step, TypeOK, Procs, CommitOf
<1>4. ASSUME NEW c \in Clients, CompareEqual(c) PROVE UNCHANGED Register!vars
  BY <1>0, <1>4 DEF CompareEqual, Step, TypeOK, Procs, CommitOf
<1>5. ASSUME NEW c \in Clients, WriteTemp(c) PROVE UNCHANGED Register!vars
  BY <1>0, <1>5 DEF WriteTemp, TypeOK, Procs, CommitOf
<1>6. ASSUME NEW c \in Clients, CompareDifferent(c) PROVE Register!Refuse(c)
  BY <1>0, <1>6 DEF CompareDifferent, Register!Refuse, TypeOK, Procs,
                   ResultFollowsPc, CommitOf
<1>7. ASSUME NEW c \in Clients, Replace(c) PROVE Register!Apply(c)
  BY <1>0, <1>7 DEF Replace, Register!Apply, TypeOK, Procs, Values,
                   ComparedValueStands, ResultFollowsPc, CommitOf
<1>8. ASSUME NEW c \in Clients, WriteFails(c) PROVE Register!Finish(c)
  BY <1>0, <1>8 DEF WriteFails, Register!Finish, TypeOK, Procs,
                   ResultFollowsPc, CommitOf
<1>9. ASSUME NEW c \in Clients, ReplaceFails(c) PROVE Register!Finish(c)
  BY <1>0, <1>9 DEF ReplaceFails, Register!Finish, TypeOK, Procs,
                   ResultFollowsPc, CommitOf
<1>10. ASSUME NEW c \in Clients, Unlock(c)
      PROVE  Register!Finish(c) \/ UNCHANGED Register!vars
  <2>1. CASE proc[c].result = "error"
    BY <1>0, <1>10, <2>1 DEF Unlock, Idle, TypeOK, Procs, CommitOf
  <2>2. CASE proc[c].result # "error"
    BY <1>0, <1>10, <2>2 DEF Unlock, Idle, Register!Finish, TypeOK, Procs, CommitOf
  <2> QED
    BY <2>1, <2>2
<1>11. ASSUME NEW c \in Clients, Crash(c)
      PROVE  Register!Finish(c) \/ UNCHANGED Register!vars
  <2>1. CASE proc[c].result = "error"
    BY <1>0, <1>11, <2>1 DEF Crash, Idle, TypeOK, Procs, CommitOf
  <2>2. CASE proc[c].result # "error"
    BY <1>0, <1>11, <2>2 DEF Crash, Idle, Register!Finish, TypeOK, Procs, CommitOf
  <2> QED
    BY <2>1, <2>2
<1> QED
  BY <1>1, <1>2, <1>3, <1>4, <1>5, <1>6, <1>7, <1>8, <1>9, <1>10, <1>11 DEF Next, Work, Register!Next, Values

(* compare_and_set_branch_ref on a local repository is the atomic register *)
(* every operation on branches is built on.                                *)
THEOREM LocalImplementsRefCas == Spec => ImplementsRefCas
<1>1. Init => Register!Init
  BY LocalRefCasAssumption
     DEF Init, Idle, Values, CommitOf, Register!Init, Register!Values, Register!NoCall
<1> QED
  BY <1>1, RegisterStep, Invariance, PTL DEF Spec, ImplementsRefCas, Register!Spec

-----------------------------------------------------------------------------
(* The lock comes back: what LockIsReleased needs beside fairness.         *)

StepsToUnlock(pc) ==
    CASE pc = "compare" -> 4 [] pc = "write" -> 3
      [] pc = "replace" -> 2 [] pc = "unlock" -> 1
      [] OTHER -> 0

\* The holder's step frees the lock or comes closer to doing so; the steps
\* of others leave it what it has.
HolderAdvances(c) ==
    \/ /\ Work(c) \/ Crash(c)
       /\ lock' = Free
    \/ /\ Work(c)
       /\ lock' = c
       /\ StepsToUnlock(proc'[c].pc) < StepsToUnlock(proc[c].pc)
    \/ /\ lock' = c
       /\ proc'[c] = proc[c]

LEMMA HolderStep ==
    ASSUME Inv, [Next]_vars, NEW c \in Clients, lock = c
    PROVE  HolderAdvances(c)
<1>1. /\ proc \in [Clients -> Procs]
      /\ \A d \in Clients : lock = d <=> proc[d].pc \in Critical
      /\ Free \notin Clients
  BY LocalRefCasAssumption DEF Inv, TypeOK, LockDiscipline
<1>2. proc[c].pc \in Critical
  BY <1>1
<1>3. CASE UNCHANGED vars
  BY <1>3 DEF vars, HolderAdvances
<1>4. ASSUME NEW d \in Clients, d # c,
             \/ \E b \in Branches, expected \in Values, new \in Values :
                    Call(d, b, expected, new)
             \/ Work(d)
             \/ Crash(d)
      PROVE  HolderAdvances(c)
  <2>1. proc[d].pc \notin Critical
    BY <1>1, <1>4
  <2>2. lock' = lock /\ proc'[c] = proc[c]
    <3>1. CASE \E b \in Branches, expected \in Values, new \in Values :
                   Call(d, b, expected, new)
      BY <1>1, <1>4, <3>1 DEF Call
    <3>2. CASE Work(d)
      BY <1>1, <1>4, <2>1, <3>2 DEF Work, Lock, CompareEqual, CompareDifferent, WriteTemp,
         WriteFails, Replace, ReplaceFails, Unlock, Critical, Step
    <3>3. CASE Crash(d)
      BY <1>1, <1>4, <3>3 DEF Crash
    <3> QED
      BY <1>4, <3>1, <3>2, <3>3
  <2> QED
    BY <2>2 DEF HolderAdvances
<1>5. ASSUME Work(c) PROVE HolderAdvances(c)
  <2>1. CASE Lock(c)
    BY <1>1, <2>1 DEF Lock
  <2>2. CASE CompareEqual(c)
    BY <1>1, <1>5, <2>2 DEF CompareEqual, Step, HolderAdvances, StepsToUnlock, Procs
  <2>3. CASE CompareDifferent(c)
    BY <1>1, <1>5, <2>3 DEF CompareDifferent, HolderAdvances, StepsToUnlock, Procs
  <2>4. CASE WriteTemp(c)
    BY <1>1, <1>5, <2>4 DEF WriteTemp, HolderAdvances, StepsToUnlock, Procs
  <2>5. CASE WriteFails(c)
    BY <1>1, <1>5, <2>5 DEF WriteFails, HolderAdvances, StepsToUnlock, Procs
  <2>6. CASE Replace(c)
    BY <1>1, <1>5, <2>6 DEF Replace, HolderAdvances, StepsToUnlock, Procs
  <2>7. CASE ReplaceFails(c)
    BY <1>1, <1>5, <2>7 DEF ReplaceFails, HolderAdvances, StepsToUnlock, Procs
  <2>8. CASE Unlock(c)
    BY <1>5, <2>8 DEF Unlock, HolderAdvances
  <2> QED
    BY <1>5, <2>1, <2>2, <2>3, <2>4, <2>5, <2>6, <2>7, <2>8 DEF Work
<1>6. ASSUME Crash(c) PROVE HolderAdvances(c)
  BY <1>6 DEF Crash, HolderAdvances
<1>7. \A b \in Branches, expected \in Values, new \in Values : ~Call(c, b, expected, new)
  BY <1>2 DEF Call, Critical
<1> QED
  BY <1>3, <1>4, <1>5, <1>6, <1>7 DEF Next

(* Every path of compare_and_set_branch_ref under the lock, the failing    *)
(* ones too, is at most four steps long and ends in the release: each step *)
(* of the holder frees the lock or leaves it fewer steps to go, and no     *)
(* other process moves the holder or takes the lock from it.  With a       *)
(* holder that keeps running this is LockIsReleased.                       *)
THEOREM HolderRunsToUnlock ==
    Spec => [][\A c \in Clients : lock = c => HolderAdvances(c)]_vars
<1>1. Inv /\ [Next]_vars => [\A c \in Clients : lock = c => HolderAdvances(c)]_vars
  BY HolderStep
<1> QED
  BY <1>1, Invariance, PTL DEF Spec
=============================================================================
