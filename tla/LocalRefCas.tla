----------------------------- MODULE LocalRefCas -----------------------------
(***************************************************************************)
(* Compare-and-set on a local repository (core/objects/local.py): the      *)
(* process takes the flock on refs/.lock, reads the ref file, compares,    *)
(* writes a temporary file beside the ref, renames it over the ref, and    *)
(* releases the lock.  The kernel releases the flock of a process that     *)
(* dies; its temporary file stays behind.                                  *)
(***************************************************************************)
EXTENDS FiniteSets, Naturals

CONSTANTS
    Clients, Branches, Commits, None,
    Absent,    \* no ref file: the branch was never written
    Free,      \* nobody holds refs/.lock
    TempNames, \* names NamedTemporaryFile may draw
    MaxLitter  \* bound: temporary files that dead processes leave behind

ASSUME LocalRefCasAssumption ==
    /\ None \notin Commits
    /\ Absent \notin Commits \union {None}
    /\ Free \notin Clients
    /\ MaxLitter \in Nat

VARIABLES
    file,  \* content of each ref file: Absent, None (an empty file) or a commit
    temps, \* the temporary files present in refs/heads
    lock,  \* the process that holds the flock on refs/.lock
    proc   \* the compare_and_set_branch_ref call each process is in

vars == <<file, temps, lock, proc>>

Values == Commits \union {None}

Procs == [pc: {"idle", "lock", "compare", "write", "replace", "unlock"},
          branch: Branches \union {None}, expected: Values, new: Values,
          temp: TempNames \union {None},
          result: {"pending", "true", "false", "error"}]

Idle == [pc |-> "idle", branch |-> None, expected |-> None, new |-> None,
         temp |-> None, result |-> "pending"]

Critical == {"compare", "write", "replace", "unlock"}

TypeOK ==
    /\ file \in [Branches -> Values \union {Absent}]
    /\ temps \subseteq TempNames
    /\ lock \in Clients \union {Free}
    /\ proc \in [Clients -> Procs]
    /\ \A c \in Clients : proc[c].pc # "idle" => proc[c].branch \in Branches

Init ==
    /\ file \in [Branches -> Values \union {Absent}]
    /\ temps = {}
    /\ lock = Free
    /\ proc = [c \in Clients |-> Idle]

\* read_branch_ref: a missing file and an empty one both hold no commit.
CommitOf(content) == IF content = Absent THEN None ELSE content

\* Temporary files no running process will rename or unlink any more.
Litter == temps \ {proc[c].temp : c \in Clients}

Step(c, pc) == proc' = [proc EXCEPT ![c].pc = pc]

-----------------------------------------------------------------------------
(* Faulty variants.  Each is one of the definitions below with a mistake   *)
(* in it; no specification uses them.  PROJECT.json pairs each with the    *)
(* property that tells it from the real one.                               *)

\* Two processes hold the flock at once.
LockUnchecked(c) ==
    /\ proc[c].pc = "lock"
    /\ lock' = c
    /\ Step(c, "compare")
    /\ UNCHANGED <<file, temps>>

\* The ref is replaced whatever it holds.
CompareSkipped(c) ==
    /\ proc[c].pc = "compare"
    /\ Step(c, "write")
    /\ UNCHANGED <<file, temps, lock>>

\* The early return of False is outside the try whose finally unlocks.
CompareReturnsLocked(c) ==
    /\ proc[c].pc = "compare"
    /\ CommitOf(file[proc[c].branch]) # proc[c].expected
    /\ proc' = [proc EXCEPT ![c] = Idle]
    /\ UNCHANGED <<file, temps, lock>>

\* An exception of the rename leaves the call without unlocking.
ReplaceFailsLocked(c) ==
    /\ proc[c].pc = "replace"
    /\ temps' = temps \ {proc[c].temp}
    /\ proc' = [proc EXCEPT ![c] = Idle]
    /\ UNCHANGED <<file, lock>>

-----------------------------------------------------------------------------
Call(c, b, expected, new) ==
    /\ proc[c].pc = "idle"
    /\ proc' = [proc EXCEPT ![c] = [pc |-> "lock", branch |-> b,
                                    expected |-> expected, new |-> new,
                                    temp |-> None, result |-> "pending"]]
    /\ UNCHANGED <<file, temps, lock>>

Lock(c) ==
    /\ proc[c].pc = "lock"
    /\ lock = Free
    /\ lock' = c
    /\ Step(c, "compare")
    /\ UNCHANGED <<file, temps>>

CompareEqual(c) ==
    /\ proc[c].pc = "compare"
    /\ CommitOf(file[proc[c].branch]) = proc[c].expected
    /\ Step(c, "write")
    /\ UNCHANGED <<file, temps, lock>>

CompareDifferent(c) ==
    /\ proc[c].pc = "compare"
    /\ CommitOf(file[proc[c].branch]) # proc[c].expected
    /\ proc' = [proc EXCEPT ![c].pc = "unlock", ![c].result = "false"]
    /\ UNCHANGED <<file, temps, lock>>

WriteTemp(c) ==
    /\ proc[c].pc = "write"
    /\ \E name \in TempNames \ temps :
        /\ temps' = temps \union {name}
        /\ proc' = [proc EXCEPT ![c].pc = "replace", ![c].temp = name]
    /\ UNCHANGED <<file, lock>>

\* temp.write raises (disk full): the file it created is not unlinked.
WriteFails(c) ==
    /\ proc[c].pc = "write"
    /\ Cardinality(Litter) < MaxLitter
    /\ \E name \in TempNames \ temps : temps' = temps \union {name}
    /\ proc' = [proc EXCEPT ![c].pc = "unlock", ![c].result = "error"]
    /\ UNCHANGED <<file, lock>>

Replace(c) ==
    /\ proc[c].pc = "replace"
    /\ file' = [file EXCEPT ![proc[c].branch] = proc[c].new]
    /\ temps' = temps \ {proc[c].temp}
    /\ proc' = [proc EXCEPT ![c].pc = "unlock", ![c].temp = None,
                            ![c].result = "true"]
    /\ UNCHANGED lock

\* os.replace raises (the ref path is a directory): the finally unlinks.
ReplaceFails(c) ==
    /\ proc[c].pc = "replace"
    /\ temps' = temps \ {proc[c].temp}
    /\ proc' = [proc EXCEPT ![c].pc = "unlock", ![c].temp = None,
                            ![c].result = "error"]
    /\ UNCHANGED <<file, lock>>

\* The finally of compare_and_set_branch_ref, then the return.
Unlock(c) ==
    /\ proc[c].pc = "unlock"
    /\ lock' = Free
    /\ proc' = [proc EXCEPT ![c] = Idle]
    /\ UNCHANGED <<file, temps>>

\* The process dies.
Crash(c) ==
    /\ proc[c].pc # "idle"
    /\ proc[c].temp # None => Cardinality(Litter) < MaxLitter
    /\ lock' = IF lock = c THEN Free ELSE lock
    /\ proc' = [proc EXCEPT ![c] = Idle]
    /\ UNCHANGED <<file, temps>>

Work(c) ==
    \/ Lock(c)
    \/ CompareEqual(c)
    \/ CompareDifferent(c)
    \/ WriteTemp(c)
    \/ WriteFails(c)
    \/ Replace(c)
    \/ ReplaceFails(c)
    \/ Unlock(c)

Next ==
    \E c \in Clients :
        \/ \E b \in Branches, expected \in Values, new \in Values :
               Call(c, b, expected, new)
        \/ Work(c)
        \/ Crash(c)

Spec == Init /\ [][Next]_vars

\* A process that runs keeps executing; nothing is assumed of who gets the
\* lock next.
Fairness == \A c \in Clients : WF_vars(Work(c))

FairSpec == Spec /\ Fairness

-----------------------------------------------------------------------------
(* The flock is held exactly by the process between _lock_exclusive and    *)
(* _unlock, so no two processes are between compare and rename at once.    *)
LockDiscipline ==
    \A c \in Clients : lock = c <=> proc[c].pc \in Critical

(* The value compare_and_set_branch_ref compared is still in the ref file  *)
(* when the rename replaces it: nothing it checked has gone stale.         *)
ComparedValueStands ==
    \A c \in Clients :
        proc[c].pc \in {"write", "replace"} =>
            CommitOf(file[proc[c].branch]) = proc[c].expected

(* The lock never stays with one process: every path through the call,     *)
(* the failing ones too, reaches _unlock.                                  *)
LockIsReleased == \A c \in Clients : lock = c ~> lock # c

(* The local adapter implements the atomic register of RefCas.             *)
Register ==
    INSTANCE RefCas WITH
        MayRefuse <- FALSE, MayLose <- FALSE,
        ref <- [b \in Branches |-> CommitOf(file[b])],
        call <- [c \in Clients |->
            IF proc[c].pc = "idle" \/ proc[c].result = "error"
            THEN [result |-> "idle"]
            ELSE [branch |-> proc[c].branch, expected |-> proc[c].expected,
                  new |-> proc[c].new, result |-> proc[c].result]]

ImplementsRefCas == Register!Spec
=============================================================================
