------------------------------- MODULE RefCas -------------------------------
(***************************************************************************)
(* What the RefCas protocol (core/objects/base.py) promises its callers:   *)
(* a branch pointer is an atomic register that is changed only by          *)
(* compare-and-set on commit ids.  One call of                             *)
(* compare_and_set_branch_ref is an invocation, one instant at which it    *)
(* takes effect or is refused, and a return.  A client may crash at any    *)
(* time; a crash before that instant leaves the register alone.            *)
(*                                                                         *)
(* LocalRefCas (lock file and rename) and S3RefCas (GET and conditional    *)
(* PUT) implement this module; BranchOps uses it.                          *)
(***************************************************************************)
CONSTANTS
    Clients,   \* the processes that call the store
    Branches,  \* branch names
    Commits,   \* commit ids
    None,      \* expected_commit_id=None / commit_id=None: no commit
    MayRefuse, \* TRUE: a call may return False although the value matched
    MayLose    \* TRUE: a call may take effect without learning that it did

VARIABLES
    ref,  \* the commit id each branch holds, None for an unborn branch
    call  \* the call each client is in

vars == <<ref, call>>

Values == Commits \union {None}

\* result is "pending" until the call has taken effect or was refused.
Calls == [branch: Branches, expected: Values, new: Values,
          result: {"pending", "true", "false"}]

NoCall == [result |-> "idle"]

TypeOK ==
    /\ ref \in [Branches -> Values]
    /\ call \in [Clients -> Calls \union {NoCall}]

Init ==
    /\ ref \in [Branches -> Values]
    /\ call = [c \in Clients |-> NoCall]

Invoke(c) ==
    /\ call[c] = NoCall
    /\ UNCHANGED ref
    /\ \E b \in Branches, expected \in Values, new \in Values :
        call' = [call EXCEPT ![c] = [branch |-> b, expected |-> expected,
                                     new |-> new, result |-> "pending"]]

\* The comparison and the write are one step.
Apply(c) ==
    /\ call[c].result = "pending"
    /\ ref[call[c].branch] = call[c].expected
    /\ ref' = [ref EXCEPT ![call[c].branch] = call[c].new]
    /\ call' = [call EXCEPT ![c].result = "true"]

\* It takes effect, the answer is lost, and the call is tried once more.
ApplyUnheard(c) ==
    /\ MayLose
    /\ call[c].result = "pending"
    /\ ref[call[c].branch] = call[c].expected
    /\ ref' = [ref EXCEPT ![call[c].branch] = call[c].new]
    /\ UNCHANGED call

Refuse(c) ==
    /\ call[c].result = "pending"
    /\ MayRefuse \/ ref[call[c].branch] # call[c].expected
    /\ call' = [call EXCEPT ![c].result = "false"]
    /\ UNCHANGED ref

\* The call returns its result, or the client dies: either way it is over.
Finish(c) ==
    /\ call[c] # NoCall
    /\ call' = [call EXCEPT ![c] = NoCall]
    /\ UNCHANGED ref

Next ==
    \E c \in Clients :
        \/ Invoke(c)
        \/ Apply(c)
        \/ ApplyUnheard(c)
        \/ Refuse(c)
        \/ Finish(c)

Spec == Init /\ [][Next]_vars
=============================================================================
