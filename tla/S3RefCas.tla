------------------------------- MODULE S3RefCas -------------------------------
(***************************************************************************)
(* Compare-and-set on an S3 repository (core/objects/s3.py): GET the ref,  *)
(* compare the commit id in process, then PUT on the condition that the    *)
(* object is still the one that was read (IfMatch on its ETag), or still   *)
(* does not exist (IfNoneMatch).  No lock is involved.                     *)
(*                                                                         *)
(* The ETag of a ref is a hash of its content, so two versions with equal  *)
(* content have equal ETags and an ETag is modelled by the content.  The   *)
(* service applies a conditional PUT atomically.  The client library       *)
(* retries a PUT whose response does not arrive.  A PUT that outlives its  *)
(* process is a process that dies just after it.                           *)
(***************************************************************************)
CONSTANTS
    Clients, Branches, Commits, None,
    Absent,        \* the key does not exist
    ETagsServed,   \* TRUE: every GET response carries an ETag
    ResponsesLost  \* TRUE: the response of an applied PUT may be lost

ASSUME S3RefCasAssumption ==
    /\ None \notin Commits
    /\ Absent \notin Commits \union {None}
    /\ ETagsServed \in BOOLEAN
    /\ ResponsesLost \in BOOLEAN

VARIABLES
    obj,   \* content of each ref key: Absent, None (empty body) or a commit
    proc,  \* the compare_and_set_branch_ref call each process is in
    raced  \* history: the processes whose PUTs changed the ref since the GET

vars == <<obj, proc, raced>>

Values == Commits \union {None}

\* read: the object the GET returned, Absent when it returned a 404.
Procs == [pc: {"idle", "get", "put", "return"},
          branch: Branches \union {None}, expected: Values, new: Values,
          read: Values \union {Absent},
          result: {"pending", "true", "false"}]

Idle == [pc |-> "idle", branch |-> None, expected |-> None, new |-> None,
         read |-> Absent, result |-> "pending"]

TypeOK ==
    /\ obj \in [Branches -> Values \union {Absent}]
    /\ proc \in [Clients -> Procs]
    /\ \A c \in Clients : proc[c].pc # "idle" => proc[c].branch \in Branches
    /\ raced \in [Clients -> SUBSET Clients]

Init ==
    /\ obj \in [Branches -> Values \union {Absent}]
    /\ proc = [c \in Clients |-> Idle]
    /\ raced = [c \in Clients |-> {}]

\* The body, stripped; an empty body and a missing key hold no commit.
CommitOf(content) == IF content = Absent THEN None ELSE content

Done(c, result) ==
    proc' = [proc EXCEPT ![c].pc = "return", ![c].result = result]

-----------------------------------------------------------------------------
(* Faulty variants.  Each is one of the definitions below with a mistake   *)
(* in it; no specification uses them.  PROJECT.json pairs each with the    *)
(* property that tells it from the real one.                               *)

\* The PUT carries no condition.
NoPrecondition(c) == proc[c].pc = "put"

\* Every failed PUT counts as a refused one.
PutFailsAsRefused(c) ==
    /\ proc[c].pc = "put"
    /\ Done(c, "false")
    /\ UNCHANGED <<obj, raced>>

-----------------------------------------------------------------------------
Call(c, b, expected, new) ==
    /\ proc[c].pc = "idle"
    /\ proc' = [proc EXCEPT ![c] = [pc |-> "get", branch |-> b,
                                    expected |-> expected, new |-> new,
                                    read |-> Absent, result |-> "pending"]]
    /\ UNCHANGED <<obj, raced>>

GetEqual(c) ==
    /\ proc[c].pc = "get"
    /\ CommitOf(obj[proc[c].branch]) = proc[c].expected
    /\ proc' = [proc EXCEPT ![c].pc = "put", ![c].read = obj[proc[c].branch]]
    /\ UNCHANGED <<obj, raced>>

GetDifferent(c) ==
    /\ proc[c].pc = "get"
    /\ CommitOf(obj[proc[c].branch]) # proc[c].expected
    /\ Done(c, "false")
    /\ UNCHANGED <<obj, raced>>

\* No ETag to condition on: refuse rather than write blind.
GetWithoutETag(c) ==
    /\ ~ETagsServed
    /\ proc[c].pc = "get"
    /\ obj[proc[c].branch] # Absent
    /\ CommitOf(obj[proc[c].branch]) = proc[c].expected
    /\ Done(c, "false")
    /\ UNCHANGED <<obj, raced>>

\* IfMatch: the ETag that was read; IfNoneMatch "*": nothing was there.
PreconditionHolds(c) == obj[proc[c].branch] = proc[c].read

\* The service replaces the object under every call on it.
Store(c) ==
    /\ obj' = [obj EXCEPT ![proc[c].branch] = proc[c].new]
    /\ raced' = [d \in Clients |->
        IF proc[d].pc = "put" /\ proc[d].branch = proc[c].branch
        THEN raced[d] \union {c} ELSE raced[d]]

PutApplied(c) ==
    /\ proc[c].pc = "put"
    /\ PreconditionHolds(c)
    /\ Store(c)
    /\ Done(c, "true")

\* 412: PreconditionFailedError becomes False.
PutRefused(c) ==
    /\ proc[c].pc = "put"
    /\ ~PreconditionHolds(c)
    /\ Done(c, "false")
    /\ UNCHANGED <<obj, raced>>

\* The PUT is applied, its response is lost, the library sends it again.
PutAppliedResponseLost(c) ==
    /\ ResponsesLost
    /\ proc[c].pc = "put"
    /\ PreconditionHolds(c)
    /\ Store(c)
    /\ UNCHANGED proc

\* The call returns its result, or the process dies or gets another error.
Finish(c) ==
    /\ proc[c].pc # "idle"
    /\ proc' = [proc EXCEPT ![c] = Idle]
    /\ raced' = [raced EXCEPT ![c] = {}]
    /\ UNCHANGED obj

Next ==
    \E c \in Clients :
        \/ \E b \in Branches, expected \in Values, new \in Values :
               Call(c, b, expected, new)
        \/ GetEqual(c)
        \/ GetDifferent(c)
        \/ GetWithoutETag(c)
        \/ PutApplied(c)
        \/ PutRefused(c)
        \/ PutAppliedResponseLost(c)
        \/ Finish(c)

Spec == Init /\ [][Next]_vars

-----------------------------------------------------------------------------
(* A 412 never comes out of nothing: a PUT changed the ref between the GET *)
(* and this PUT, a peer's or an earlier try of this very call.             *)
ConflictHasCause ==
    [][\A c \in Clients : PutRefused(c) => raced[c] # {}]_vars

(* The S3 adapter implements the atomic register of RefCas.  It may refuse *)
(* a call whose commit id matched: without an ETag, or when an unborn      *)
(* branch (None) is created as an empty object between GET and PUT.  A     *)
(* call whose response is lost has taken effect unheard; even then a ref   *)
(* moves only from the commit id a caller expected to the one it asked for.*)
Register ==
    INSTANCE RefCas WITH
        MayRefuse <- TRUE, MayLose <- ResponsesLost,
        ref <- [b \in Branches |-> CommitOf(obj[b])],
        call <- [c \in Clients |->
            IF proc[c].pc = "idle"
            THEN [result |-> "idle"]
            ELSE [branch |-> proc[c].branch, expected |-> proc[c].expected,
                  new |-> proc[c].new, result |-> proc[c].result]]

ImplementsRefCas == Register!Spec
=============================================================================
