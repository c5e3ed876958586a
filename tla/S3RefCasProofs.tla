---------------------------- MODULE S3RefCasProofs ----------------------------
(***************************************************************************)
(* For any number of processes, branches and commits, with or without      *)
(* ETags and lost responses, compare-and-set on an S3 repository is the    *)
(* register of RefCas (S3ImplementsRefCas), and a conditional PUT is       *)
(* refused only after the ref was written under the call (ConflictCaused). *)
(*                                                                         *)
(* There is no lock, so the compared value need not stand.  What holds     *)
(* instead is that the object which was read held the expected commit,     *)
(* and that it is still there until some PUT is recorded in raced.         *)
(***************************************************************************)
EXTENDS S3RefCas, TLAPS

(* What a call under way has read.                                         *)
ReadMatched ==
    \A c \in Clients :
        /\ proc[c].pc = "put" => CommitOf(proc[c].read) = proc[c].expected
        /\ proc[c].pc \in {"get", "put"} => proc[c].result = "pending"

(* It stays there until the call is raced.                                 *)
StandsUnlessRaced ==
    \A c \in Clients :
        /\ proc[c].pc \in {"idle", "get"} => raced[c] = {}
        /\ proc[c].pc = "put" /\ raced[c] = {} =>
               obj[proc[c].branch] = proc[c].read

Inv == TypeOK /\ ReadMatched /\ StandsUnlessRaced

-----------------------------------------------------------------------------
(* What a step of c finds in the state.                                    *)
LEMMA Reads ==
    ASSUME TypeOK, NEW c \in Clients
    PROVE  /\ proc[c] \in Procs
           /\ proc[c].expected \in Values
           /\ proc[c].new \in Values
           /\ proc[c].new # Absent
           /\ proc[c].read \in Values \union {Absent}
           /\ proc[c].pc # "idle" => proc[c].branch \in Branches
           /\ raced[c] \in SUBSET Clients
  BY S3RefCasAssumption DEF TypeOK, Procs, Values

(* One process gets a well-typed record, the others keep theirs.           *)
LEMMA ProcUpdate ==
    ASSUME TypeOK, NEW c \in Clients, NEW rec \in Procs,
           proc' = [proc EXCEPT ![c] = rec],
           rec.pc # "idle" => rec.branch \in Branches
    PROVE  /\ proc' \in [Clients -> Procs]
           /\ \A d \in Clients : proc'[d].pc # "idle" => proc'[d].branch \in Branches
  BY DEF TypeOK

(* A PUT that is applied writes a commit or nothing, and names the writer. *)
LEMMA StoreTypes ==
    ASSUME TypeOK, NEW c \in Clients, proc[c].pc = "put", Store(c)
    PROVE  /\ obj' \in [Branches -> Values \union {Absent}]
           /\ raced' \in [Clients -> SUBSET Clients]
  BY Reads DEF TypeOK, Store

(* A call that has its result keeps its other fields.                      *)
LEMMA DoneTypes ==
    ASSUME TypeOK, NEW c \in Clients, proc[c].pc # "idle",
           NEW result \in {"true", "false"}, Done(c, result)
    PROVE  /\ proc' \in [Clients -> Procs]
           /\ \A d \in Clients : proc'[d].pc # "idle" => proc'[d].branch \in Branches
<1> DEFINE rec == [proc[c] EXCEPT !.pc = "return", !.result = result]
<1>0. proc[c] \in Procs /\ proc[c].branch \in Branches
  BY Reads
<1>1. rec \in Procs /\ rec.branch \in Branches
  BY <1>0 DEF Procs
<1>2. proc' = [proc EXCEPT ![c] = rec]
  BY DEF Done, TypeOK
<1>3. rec.pc # "idle" => rec.branch \in Branches
  BY <1>1
<1> HIDE DEF rec
<1> QED
  BY <1>1, <1>2, <1>3, ProcUpdate

(* No step of a call leaves the types of the state.                        *)
LEMMA TypeStep == TypeOK /\ [Next]_vars => TypeOK'
<1> SUFFICES ASSUME TypeOK, [Next]_vars PROVE TypeOK'
  OBVIOUS
<1> USE S3RefCasAssumption
<1>1. CASE UNCHANGED vars
  BY <1>1 DEF vars, TypeOK
<1>2. ASSUME NEW c \in Clients, NEW b \in Branches,
             NEW expected \in Values, NEW new \in Values,
             Call(c, b, expected, new)
      PROVE  TypeOK'
  BY <1>2 DEF Call, TypeOK, Procs
<1>3. ASSUME NEW c \in Clients, GetEqual(c) PROVE TypeOK'
  <2> DEFINE rec == [proc[c] EXCEPT !.pc = "put", !.read = obj[proc[c].branch]]
  <2>1. proc[c].branch \in Branches
    BY <1>3, Reads DEF GetEqual
  <2>2. rec \in Procs /\ rec.branch \in Branches
    BY <2>1 DEF TypeOK, Procs
  <2>3. proc' = [proc EXCEPT ![c] = rec]
    BY <1>3 DEF TypeOK, GetEqual
  <2> HIDE DEF rec
  <2> QED
    BY <1>3, <2>2, <2>3, ProcUpdate DEF TypeOK, GetEqual
<1>4. ASSUME NEW c \in Clients,
             GetDifferent(c) \/ GetWithoutETag(c) \/ PutRefused(c)
      PROVE  TypeOK'
  BY <1>4, DoneTypes DEF TypeOK, GetDifferent, GetWithoutETag, PutRefused
<1>5. ASSUME NEW c \in Clients, PutApplied(c) PROVE TypeOK'
  <2>1. proc[c].pc = "put" /\ Store(c) /\ Done(c, "true")
    BY <1>5 DEF PutApplied
  <2> QED
    BY <2>1, DoneTypes, StoreTypes DEF TypeOK
<1>6. ASSUME NEW c \in Clients, PutAppliedResponseLost(c) PROVE TypeOK'
  BY <1>6, StoreTypes DEF TypeOK, PutAppliedResponseLost
<1>7. ASSUME NEW c \in Clients, Finish(c) PROVE TypeOK'
  BY <1>7 DEF Finish, Idle, TypeOK, Procs, Values
<1> QED
  BY <1>1, <1>2, <1>3, <1>4, <1>5, <1>6, <1>7 DEF Next

(* The refs hold commits, empty bodies or nothing; the calls are at one of *)
(* their steps with values of the right kind.                              *)
THEOREM TypeCorrect == Spec => []TypeOK
<1>1. Init => TypeOK
  BY S3RefCasAssumption DEF Init, TypeOK, Procs, Idle, Values
<1> QED
  BY <1>1, TypeStep, PTL DEF Spec
-----------------------------------------------------------------------------
(* What the other calls find after a PUT: those on the same ref are raced, *)
(* those on other refs see no change.                                      *)
LEMMA StoreRaces ==
    ASSUME Inv, NEW c \in Clients, proc[c].pc = "put", Store(c),
           NEW d \in Clients
    PROVE  /\ proc[d].pc \in {"idle", "get"} => raced'[d] = raced[d]
           /\ proc[d].pc = "put" /\ raced'[d] = {} =>
                obj'[proc[d].branch] = obj[proc[d].branch] /\ raced[d] = {}
  BY Reads DEF Inv, TypeOK, Store

LEMMA InvStep == Inv /\ [Next]_vars => Inv'
<1> SUFFICES ASSUME Inv, [Next]_vars
             PROVE  ReadMatched' /\ StandsUnlessRaced'
  BY TypeStep DEF Inv
<1> USE S3RefCasAssumption
<1>0. TypeOK /\ ReadMatched /\ StandsUnlessRaced
  BY DEF Inv
<1>1. CASE UNCHANGED vars
  BY <1>0, <1>1 DEF vars, ReadMatched, StandsUnlessRaced
<1>2. ASSUME NEW c \in Clients, NEW b \in Branches,
             NEW expected \in Values, NEW new \in Values,
             Call(c, b, expected, new)
      PROVE  ReadMatched' /\ StandsUnlessRaced'
  BY <1>0, <1>2 DEF Call, TypeOK, ReadMatched, StandsUnlessRaced
<1>3. ASSUME NEW c \in Clients, GetEqual(c)
      PROVE  ReadMatched' /\ StandsUnlessRaced'
  <2>1. proc' = [proc EXCEPT ![c] = [proc[c] EXCEPT !.pc = "put",
                                        !.read = obj[proc[c].branch]]]
    BY <1>0, <1>3 DEF GetEqual, TypeOK
  <2>2. ReadMatched'
    BY <1>0, <1>3, <2>1 DEF GetEqual, TypeOK, Procs, ReadMatched
  <2>3. StandsUnlessRaced'
    BY <1>0, <1>3, <2>1 DEF GetEqual, TypeOK, Procs, StandsUnlessRaced
  <2> QED
    BY <2>2, <2>3
<1>4. ASSUME NEW c \in Clients,
             GetDifferent(c) \/ GetWithoutETag(c) \/ PutRefused(c)
      PROVE  ReadMatched' /\ StandsUnlessRaced'
  <2>1. /\ proc' = [proc EXCEPT ![c] = [proc[c] EXCEPT !.pc = "return",
                                                       !.result = "false"]]
        /\ UNCHANGED <<obj, raced>>
    BY <1>0, <1>4 DEF GetDifferent, GetWithoutETag, PutRefused, Done, TypeOK
  <2> QED
    BY <1>0, <2>1 DEF TypeOK, Procs, ReadMatched, StandsUnlessRaced
<1>5. ASSUME NEW c \in Clients, PutApplied(c)
      PROVE  ReadMatched' /\ StandsUnlessRaced'
  <2>1. /\ proc' = [proc EXCEPT ![c] = [proc[c] EXCEPT !.pc = "return",
                                                       !.result = "true"]]
        /\ proc[c].pc = "put" /\ Store(c)
    BY <1>0, <1>5 DEF PutApplied, Done, TypeOK
  <2>2. ReadMatched'
    BY <1>0, <2>1 DEF TypeOK, Procs, ReadMatched
  <2>3. StandsUnlessRaced'
    BY <1>0, <2>1, StoreRaces DEF TypeOK, Procs, StandsUnlessRaced
  <2> QED
    BY <2>2, <2>3
<1>6. ASSUME NEW c \in Clients, PutAppliedResponseLost(c)
      PROVE  ReadMatched' /\ StandsUnlessRaced'
  BY <1>0, <1>6, StoreRaces DEF PutAppliedResponseLost, ReadMatched, StandsUnlessRaced
<1>7. ASSUME NEW c \in Clients, Finish(c)
      PROVE  ReadMatched' /\ StandsUnlessRaced'
  BY <1>0, <1>7 DEF Finish, Idle, TypeOK, ReadMatched, StandsUnlessRaced
<1> QED
  BY <1>1, <1>2, <1>3, <1>4, <1>5, <1>6, <1>7 DEF Next

LEMMA InvInit == Init => Inv
  BY S3RefCasAssumption
     DEF Init, Inv, TypeOK, ReadMatched, StandsUnlessRaced, Procs, Idle, Values

LEMMA Invariance == Spec => []Inv
  BY InvInit, InvStep, PTL DEF Spec

(* ConflictHasCause: a 412 never comes out of nothing.                     *)
THEOREM ConflictCaused == Spec => ConflictHasCause
<1>1. ASSUME Inv, NEW c \in Clients, PutRefused(c)
      PROVE  raced[c] # {}
  BY <1>1 DEF Inv, StandsUnlessRaced, PutRefused, PreconditionHolds
<1>2. Inv /\ [Next]_vars =>
        [\A c \in Clients : PutRefused(c) => raced[c] # {}]_vars
  BY <1>1
<1> QED
  BY <1>2, Invariance, PTL DEF Spec, ConflictHasCause

-----------------------------------------------------------------------------
(* The applied PUT is the instant at which the call takes effect, heard of *)
(* or not; the comparison, a missing ETag or the 412 that at which it is   *)
(* refused.                                                                *)
LEMMA RegisterStep == Inv /\ [Next]_vars => [Register!Next]_(Register!vars)
<1> SUFFICES ASSUME Inv, [Next]_vars
             PROVE  Register!Next \/ UNCHANGED Register!vars
  OBVIOUS
<1> USE S3RefCasAssumption
<1>0. TypeOK /\ ReadMatched /\ StandsUnlessRaced
  BY DEF Inv
<1> USE DEF Register!vars, Register!NoCall, Register!Values
<1>1. CASE UNCHANGED vars
  BY <1>1 DEF vars, CommitOf
<1>2. ASSUME NEW c \in Clients, NEW b \in Branches,
             NEW expected \in Values, NEW new \in Values,
             Call(c, b, expected, new)
      PROVE  Register!Invoke(c)
  <2> DEFINE call == [d \in Clients |->
               IF proc[d].pc = "idle"
               THEN [result |-> "idle"]
               ELSE [branch |-> proc[d].branch, expected |-> proc[d].expected,
                     new |-> proc[d].new, result |-> proc[d].result]]
  <2>1. call[c] = Register!NoCall
    BY <1>2 DEF Call
  <2>2. UNCHANGED [b_1 \in Branches |-> CommitOf(obj[b_1])]
    BY <1>2 DEF Call, CommitOf
  <2>3. call' = [call EXCEPT ![c] = [branch |-> b, expected |-> expected,
                                     new |-> new, result |-> "pending"]]
    BY <1>0, <1>2 DEF Call, TypeOK
  <2>4. expected \in Register!Values /\ new \in Register!Values
    BY DEF Values
  <2> QED
    BY <2>1, <2>2, <2>3, <2>4 DEF Register!Invoke
<1>3. ASSUME NEW c \in Clients, GetEqual(c) PROVE UNCHANGED Register!vars
  BY <1>0, <1>3 DEF GetEqual, TypeOK, Procs, CommitOf
<1>4. ASSUME NEW c \in Clients,
             GetDifferent(c) \/ GetWithoutETag(c) \/ PutRefused(c)
      PROVE  Register!Refuse(c)
  BY <1>0, <1>4 DEF GetDifferent, GetWithoutETag, PutRefused, Done, Register!Refuse,
                   TypeOK, Procs, ReadMatched, CommitOf
<1>5. ASSUME NEW c \in Clients, PutApplied(c) PROVE Register!Apply(c)
  BY <1>0, <1>5, Reads DEF PutApplied, PreconditionHolds, Store, Done, Register!Apply,
                   TypeOK, Procs, ReadMatched, CommitOf
<1>6. ASSUME NEW c \in Clients, PutAppliedResponseLost(c)
      PROVE  Register!ApplyUnheard(c)
  BY <1>0, <1>6, Reads DEF PutAppliedResponseLost, PreconditionHolds, Store,
                   Register!ApplyUnheard, TypeOK, Procs, ReadMatched, CommitOf
<1>7. ASSUME NEW c \in Clients, Finish(c) PROVE Register!Finish(c)
  BY <1>0, <1>7 DEF Finish, Idle, Register!Finish, TypeOK, Procs, CommitOf
<1> QED
  BY <1>1, <1>2, <1>3, <1>4, <1>5, <1>6, <1>7 DEF Next, Register!Next

(* ImplementsRefCas: compare_and_set_branch_ref on an S3 repository is the *)
(* register every operation on branches is built on.                       *)
THEOREM S3ImplementsRefCas == Spec => ImplementsRefCas
<1>1. Init => Register!Init
  BY S3RefCasAssumption
     DEF Init, Idle, Values, CommitOf, Register!Init, Register!Values, Register!NoCall
<1> QED
  BY <1>1, RegisterStep, Invariance, PTL DEF Spec, ImplementsRefCas, Register!Spec
=============================================================================
