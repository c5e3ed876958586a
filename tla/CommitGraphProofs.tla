-------------------------- MODULE CommitGraphProofs --------------------------
(***************************************************************************)
(* Theorems of CommitGraph, for every finite or infinite set of histories  *)
(* of any size:                                                            *)
(*   TypeCorrect      the state is well typed,                             *)
(*   AncestryExact    is_ancestor_commit answers reachability,             *)
(*   BaseBest         merge_base_commit returns a best common ancestor,    *)
(*   BaseWalkShort    and follows no common ancestor to find it,           *)
(*   ListingComplete  log and push collect what is reachable,              *)
(*   RaisesOnGaps     only a missing commit makes a walk raise.            *)
(*                                                                         *)
(* Reachability is the least closed set, so that each "cannot be reached"  *)
(* is shown with a closed set that lacks the commit: what is marked and    *)
(* what is too old to matter.                                              *)
(***************************************************************************)
EXTENDS CommitGraph, TLAPS

\* What is marked is reachable from its side.
Sound == \A k \in Commits : \A s \in marks[k] : k \in Ancestors(From(s))

\* A marked commit is pending, or dropped as too old, or its parents carry its
\* marks.
Followed ==
    \A k \in Commits \ pending : \A s \in marks[k] :
        \/ query.kind = "ancestor" /\ TooOld(k)
        \/ \A p \in ReadEdges[k] : s \in marks[p]

\* Where the walk began.
Begun ==
    /\ "b" \in marks[query.b]
    /\ query.kind = "base" => "a" \in marks[query.a]

\* A commit that answers the question is never passed by.
NotPassed ==
    /\ query.kind = "ancestor" =>
         (marks[query.a] # {} => query.a \in pending)
    /\ query.kind = "base" =>
         \A k \in Commits : marks[k] = Sides => k \in pending

\* What is pending is marked; for a merge base it can also be read.
FrontierRead ==
    /\ \A k \in pending : marks[k] # {}
    /\ query.kind = "base" => pending \subseteq history.known

Walking ==
    pc = "walk" =>
        /\ Followed /\ Begun /\ NotPassed /\ FrontierRead
        /\ query.kind # "base" => \A k \in Commits : marks[k] \subseteq {"b"}

Answers ==
    /\ pc # "done" => result = "none"
    /\ AncestryIsExact /\ BaseIsBest /\ ListingIsComplete /\ RaisesOnlyOnGaps

Inv == TypeOK /\ Sound /\ Walking /\ Answers /\ BaseWalkIsShort

-----------------------------------------------------------------------------
(* Reachability.                                                           *)

\* A commit reaches itself.
LEMMA ReachSelf ==
    ASSUME NEW k \in Commits, NEW edges
    PROVE  k \in Reachable(k, edges)
BY DEF Reachable

\* What is reachable is closed under the edges.
LEMMA ReachStep ==
    ASSUME NEW k \in Commits, NEW edges \in [Commits -> SUBSET Commits],
           NEW d \in Reachable(k, edges), NEW p \in edges[d]
    PROVE  p \in Reachable(k, edges)
<1>1. d \in Commits
  BY DEF Reachable
<1>2. p \in Commits
  BY <1>1
<1>3. SUFFICES ASSUME NEW S \in SUBSET Commits, k \in S,
                      \A e \in S : edges[e] \subseteq S
               PROVE  p \in S
  BY <1>2 DEF Reachable
<1>4. d \in S
  BY <1>3 DEF Reachable
<1> QED
  BY <1>3, <1>4

\* A closed set that holds the start holds what is reachable.
LEMMA ReachLeast ==
    ASSUME NEW k \in Commits, NEW edges, NEW S \in SUBSET Commits, k \in S,
           \A e \in S : edges[e] \subseteq S
    PROVE  Reachable(k, edges) \subseteq S
BY DEF Reachable

\* The two edge relations map commits to commits.
LEMMA EdgesType ==
    ASSUME TypeOK
    PROVE  /\ ReadEdges \in [Commits -> SUBSET Commits]
           /\ DerivedEdges \in [Commits -> SUBSET Commits]
           /\ \A k \in Commits : DerivedEdges[k] \subseteq ReadEdges[k]
<1>1. history.parents \in [Commits -> SUBSET Commits]
  BY DEF TypeOK, IsHistory
<1> QED
  BY <1>1 DEF ReadEdges, DerivedEdges

\* The ends of a query, and generations, have their types.
LEMMA Typing ==
    ASSUME TypeOK
    PROVE  /\ query.a \in Commits
           /\ query.b \in Commits
           /\ \A s \in Sides : From(s) \in Commits
           /\ \A k \in Commits : Generation(k) \in Nat
           /\ \A k \in Commits : history.parents[k] \subseteq Commits
BY DEF TypeOK, IsHistory, Queries, Sides, From, Generation

\* Generations fall along the edges.
LEMMA GenerationFalls ==
    ASSUME TypeOK, NEW k \in Commits, NEW p \in ReadEdges[k]
    PROVE  Generation(p) < Generation(k)
<1>1. k \in history.known /\ p \in history.parents[k]
  BY DEF ReadEdges
<1>2. GenerationRule(history, k)
  BY DEF TypeOK, IsHistory
<1> QED
  BY <1>1, <1>2 DEF GenerationRule, Generation

\* No ancestor has a higher generation.
LEMMA AncestorsAreOlder ==
    ASSUME TypeOK, NEW k \in Commits, NEW d \in Ancestors(k)
    PROVE  Generation(d) <= Generation(k)
<1> USE Typing
<1> DEFINE S == {e \in Commits : Generation(e) <= Generation(k)}
<1>1. S \in SUBSET Commits /\ k \in S
  OBVIOUS
<1>2. ASSUME NEW e \in S, NEW p \in ReadEdges[e]
      PROVE  p \in S
  <2>1. e \in Commits /\ p \in Commits /\ Generation(p) < Generation(e)
    BY <1>2, GenerationFalls, EdgesType
  <2>2. Generation(p) \in Nat /\ Generation(e) \in Nat /\ Generation(k) \in Nat
    BY <2>1
  <2> QED
    BY <2>1, <2>2
<1>3. Reachable(k, ReadEdges) \subseteq S
  <2> HIDE DEF S
  <2> QED
    BY <1>1, <1>2, ReachLeast
<1> QED
  BY <1>3 DEF Ancestors

\* A commit that cannot be read misses something it reaches.
LEMMA UnreadableHasGap ==
    ASSUME TypeOK, NEW k \in Commits, ~Readable(k)
    PROVE  ~(Ancestors(k) \subseteq history.known)
<1> DEFINE S == Ancestors(k)
<1>1. S \in SUBSET Commits /\ k \in S
  BY ReachSelf DEF Ancestors, Reachable
<1>2. \A e \in S : ReadEdges[e] \subseteq S
  BY ReachStep, EdgesType DEF Ancestors
<1>3. \A e \in S : DerivedEdges[e] \subseteq S
  BY <1>1, <1>2, EdgesType
<1>4. Reachable(k, DerivedEdges) \subseteq S
  <2> HIDE DEF S
  <2> QED
    BY <1>1, <1>3, ReachLeast
<1> QED
  BY <1>4 DEF Readable

\* What is reachable from something reachable is reachable.
LEMMA ReachTransitive ==
    ASSUME TypeOK, NEW j \in Commits, NEW k \in Ancestors(j)
    PROVE  Ancestors(k) \subseteq Ancestors(j)
<1> DEFINE S == Ancestors(j)
<1>1. S \in SUBSET Commits /\ k \in S /\ k \in Commits
  BY DEF Ancestors, Reachable
<1>2. \A e \in S : ReadEdges[e] \subseteq S
  BY ReachStep, EdgesType DEF Ancestors
<1>3. Reachable(k, ReadEdges) \subseteq S
  <2> HIDE DEF S
  <2> QED
    BY <1>1, <1>2, ReachLeast
<1> QED
  BY <1>3 DEF Ancestors

-----------------------------------------------------------------------------
(* What the marks say when a walk ends.                                    *)

\* An exhausted ancestry walk has not missed the ancestor.
LEMMA ExhaustedAncestry ==
    ASSUME Inv, pc = "walk", query.kind = "ancestor", pending = {}
    PROVE  query.a \notin Ancestors(query.b)
<1> USE Typing, EdgesType DEF Inv
<1> DEFINE Old == {k \in Commits : /\ query.a \in history.known
                                   /\ Generation(k) <= Generation(query.a)
                                   /\ k # query.a}
           S == Marked \union Old
<1>1. S \in SUBSET Commits /\ query.b \in S
  BY DEF Walking, Begun, Marked
<1>2. query.a \notin S
  BY DEF Walking, NotPassed, Marked
<1>3. ASSUME NEW e \in S, NEW p \in ReadEdges[e]
      PROVE  p \in S
  <2>1. e \in Commits /\ p \in Commits /\ Generation(p) < Generation(e)
    BY <1>1, <1>3, GenerationFalls
  <2>2. /\ Generation(p) \in Nat /\ Generation(e) \in Nat
        /\ Generation(query.a) \in Nat
    BY <2>1
  <2>3. CASE e \in Old
    BY <2>1, <2>2, <2>3
  <2>4. CASE e \in Marked
    <3>1. PICK s \in marks[e] : TRUE
      BY <2>4 DEF Marked
    <3>2. CASE TooOld(e)
      BY <2>1, <2>2, <3>2 DEF TooOld
    <3>3. CASE s \in marks[p]
      BY <2>1, <3>3 DEF Marked
    <3> QED
      BY <1>3, <2>1, <3>1, <3>2, <3>3 DEF Walking, Followed
  <2> QED
    BY <2>3, <2>4
<1>4. Reachable(query.b, ReadEdges) \subseteq S
  <2> HIDE DEF S
  <2> QED
    BY <1>1, <1>3, ReachLeast
<1> QED
  BY <1>2, <1>4 DEF Ancestors

\* The frontier of a merge base: what is reachable from a side is marked with
\* it, but for what is no younger than the whole frontier, and the commit at
\* its front is marked with every side that reaches it.
LEMMA Frontier ==
    ASSUME Inv, pc = "walk", query.kind = "base", NEW s \in Sides,
           NEW k \in pending, Foremost(k), NEW y \in Ancestors(From(s))
    PROVE  s \in marks[y] \/ (Generation(y) <= Generation(k) /\ y # k)
<1> USE Typing, EdgesType DEF Inv
<1> DEFINE S == {d \in Commits : \/ s \in marks[d]
                                 \/ Generation(d) <= Generation(k) /\ d # k}
<1>1. From(s) \in S
  BY DEF Walking, Begun, From, Sides
<1>2. ASSUME NEW e \in S, NEW p \in ReadEdges[e]
      PROVE  p \in S
  <2>1. e \in Commits /\ p \in Commits /\ Generation(p) < Generation(e)
    BY <1>2, GenerationFalls
  <2>2. k \in Commits /\ \A j \in pending : Generation(j) <= Generation(k)
    BY DEF TypeOK, Foremost
  <2>3. /\ Generation(p) \in Nat /\ Generation(e) \in Nat
        /\ Generation(k) \in Nat
    BY <2>1, <2>2
  <2>4. CASE Generation(e) <= Generation(k)
    BY <2>1, <2>3, <2>4
  <2>5. CASE ~(Generation(e) <= Generation(k))
    <3>1. s \in marks[e] /\ e \notin pending
      BY <2>2, <2>5
    <3>2. s \in marks[p]
      BY <1>2, <2>1, <3>1 DEF Walking, Followed
    <3> QED
      BY <2>1, <3>2
  <2> QED
    BY <2>4, <2>5
<1>3. Reachable(From(s), ReadEdges) \subseteq S
  <2>1. S \in SUBSET Commits
    OBVIOUS
  <2> HIDE DEF S
  <2> QED
    BY <1>1, <1>2, <2>1, ReachLeast
<1> QED
  BY <1>3 DEF Ancestors

\* An exhausted merge-base walk has found nothing in common.
LEMMA ExhaustedBase ==
    ASSUME Inv, pc = "walk", query.kind = "base", pending = {}
    PROVE  Common = {}
<1> USE Typing, EdgesType DEF Inv
<1>1. ASSUME NEW s \in Sides
      PROVE  Ancestors(From(s)) \subseteq {d \in Commits : s \in marks[d]}
  <2> DEFINE S == {d \in Commits : s \in marks[d]}
  <2>1. S \in SUBSET Commits /\ From(s) \in S
    BY <1>1 DEF Walking, Begun, From, Sides
  <2>2. ASSUME NEW e \in S, NEW p \in ReadEdges[e]
        PROVE  p \in S
    BY <2>2 DEF Walking, Followed
  <2>3. Reachable(From(s), ReadEdges) \subseteq S
    <3> HIDE DEF S
    <3> QED
      BY <1>1, <2>1, <2>2, ReachLeast
  <2> QED
    BY <2>3 DEF Ancestors
<1>2. From("a") = query.a /\ From("b") = query.b
  BY DEF From
<1>3. ASSUME NEW y \in Common
      PROVE  marks[y] = Sides /\ y \in Commits
  <2>1. "a" \in marks[y] /\ "b" \in marks[y] /\ y \in Commits
    BY <1>1, <1>2 DEF Common, Sides
  <2>2. marks[y] \subseteq Sides
    BY <2>1 DEF TypeOK
  <2> QED
    BY <2>1, <2>2 DEF Sides
<1> QED
  BY <1>3 DEF Walking, NotPassed

\* An exhausted listing has marked what is reachable.
LEMMA ExhaustedListing ==
    ASSUME Inv, pc = "walk", query.kind = "list", pending = {}
    PROVE  Marked = Ancestors(query.b)
<1> USE Typing, EdgesType DEF Inv
<1>1. \A k \in Marked : k \in Commits /\ marks[k] = {"b"}
  BY DEF Walking, Marked
<1>2. Marked \subseteq Ancestors(query.b)
  BY <1>1 DEF Sound, From
<1>3. Marked \in SUBSET Commits /\ query.b \in Marked
  BY DEF Marked, Walking, Begun
<1>4. ASSUME NEW e \in Marked, NEW p \in ReadEdges[e]
      PROVE  p \in Marked
  <2>1. "b" \in marks[p]
    BY <1>1, <1>4 DEF Walking, Followed
  <2> QED
    BY <1>1, <1>4, <2>1 DEF Marked
<1>5. Reachable(query.b, ReadEdges) \subseteq Marked
  BY <1>3, <1>4, ReachLeast
<1> QED
  BY <1>2, <1>5 DEF Ancestors

-----------------------------------------------------------------------------
(* The steps.                                                              *)

\* What makes an answer right, before it is given.
RightAnswer(r, k) ==
    /\ r \in {"yes", "no", "base", "disjoint", "listed", "raised"}
    /\ k \in Commits \union {None}
    /\ r = "yes" => query.a \in Ancestors(query.b)
    /\ r = "no" => query.a \notin Ancestors(query.b)
    /\ r = "base" =>
         k \in Common /\ \A j \in Common : Generation(j) <= Generation(k)
    /\ r = "disjoint" => Common = {}
    /\ r = "listed" => Marked = Ancestors(query.b)
    /\ r = "raised" =>
         ~(Ancestors(query.a) \union Ancestors(query.b) \subseteq history.known)

\* A right answer keeps the invariant.
LEMMA AnswerKeeps ==
    ASSUME Inv, NEW r, NEW k, RightAnswer(r, k), Answer(r, k)
    PROVE  Inv'
<1>1. UNCHANGED <<history, query, pending, marks, expanded>>
  BY DEF Answer
<1>2. pc' = "done" /\ result' = r /\ base' = k
  BY DEF Answer
<1>3. \A j : Ancestors(j)' = Ancestors(j) /\ Generation(j)' = Generation(j)
  BY <1>1 DEF Ancestors, ReadEdges, Generation
<1>4. Common' = Common /\ Marked' = Marked
  BY <1>1 DEF Common, Marked, Ancestors, ReadEdges
<1>5. TypeOK'
  BY <1>1, <1>2 DEF Inv, TypeOK, RightAnswer, IsHistory, GenerationRule
<1>6. Sound'
  BY <1>1 DEF Inv, Sound, Ancestors, ReadEdges, From
<1>7. Walking'
  BY <1>2 DEF Walking
<1>8. BaseWalkIsShort'
  BY <1>1, <1>4 DEF Inv, BaseWalkIsShort
<1>9. Answers'
  <2>1. AncestryIsExact'
    BY <1>1, <1>2 DEF RightAnswer, AncestryIsExact, Ancestors, ReadEdges
  <2>2. BaseIsBest'
    BY <1>1, <1>2, <1>4 DEF RightAnswer, BaseIsBest, Generation
  <2>3. ListingIsComplete'
    BY <1>1, <1>2, <1>4
       DEF RightAnswer, ListingIsComplete, Ancestors, ReadEdges
  <2>4. RaisesOnlyOnGaps'
    BY <1>1, <1>2 DEF RightAnswer, RaisesOnlyOnGaps, Ancestors, ReadEdges
  <2> QED
    BY <1>2, <2>1, <2>2, <2>3, <2>4 DEF Answers
<1> QED
  BY <1>5, <1>6, <1>7, <1>8, <1>9 DEF Inv

\* A state that stays the same keeps the invariant.
LEMMA SameState == ASSUME Inv, UNCHANGED vars PROVE Inv'
<1>1. UNCHANGED <<history, query, pc, pending, marks, expanded, result, base>>
  BY DEF vars
<1>2. TypeOK'
  BY <1>1 DEF Inv, TypeOK, IsHistory, GenerationRule
<1>3. Sound'
  BY <1>1 DEF Inv, Sound, Ancestors, ReadEdges, From
<1>4. Walking'
  BY <1>1 DEF Inv, Walking, Followed, Begun, NotPassed, FrontierRead, TooOld,
              Generation, ReadEdges
<1>5. Answers'
  BY <1>1 DEF Inv, Answers, AncestryIsExact, BaseIsBest, ListingIsComplete,
              RaisesOnlyOnGaps, Common, Marked, Ancestors, ReadEdges, Generation
<1>6. BaseWalkIsShort'
  BY <1>1 DEF Inv, BaseWalkIsShort, Common, Ancestors, ReadEdges
<1> QED
  BY <1>2, <1>3, <1>4, <1>5, <1>6 DEF Inv

\* Before the answer nothing has been answered.
LEMMA NoAnswerYet ==
    ASSUME Inv, UNCHANGED <<history, query, result>>, pc # "done"
    PROVE  Answers'
BY DEF Inv, Answers, AncestryIsExact, BaseIsBest, ListingIsComplete,
       RaisesOnlyOnGaps

\* A walk that begins marks its sources with their own sides.
LEMMA BeginKeeps ==
    ASSUME Inv, pc = "start", NEW sides \in SUBSET Sides, "b" \in sides,
           query.kind = "base" <=> "a" \in sides,
           query.kind = "base" =>
               /\ query.a # query.b
               /\ Readable(query.a) /\ Readable(query.b) /\ ~query.lenient,
           query.kind = "ancestor" => query.a # query.b,
           Begin(sides)
    PROVE  Inv'
<1> USE Typing
<1>1. UNCHANGED <<history, query, expanded, result, base>> /\ pc' = "walk"
  BY DEF Begin
<1>2. /\ pending' = {From(s) : s \in sides}
      /\ marks' = [k \in Commits |-> {s \in sides : From(s) = k}]
  BY DEF Begin
<1>3. \A s \in sides : s \in Sides /\ From(s) \in Commits
  BY DEF Inv
<1>4. TypeOK'
  <2>1. pending' \subseteq Commits
    BY <1>2, <1>3
  <2>2. marks' \in [Commits -> SUBSET Sides]
    BY <1>2
  <2> QED
    BY <1>1, <2>1, <2>2 DEF Inv, TypeOK, IsHistory, GenerationRule
<1>5. Sound'
  <2>1. SUFFICES ASSUME NEW k \in Commits, NEW s \in marks'[k]
                 PROVE  k \in Ancestors(From(s))'
    BY DEF Sound
  <2>2. From(s) = k
    BY <1>2
  <2>3. From(s)' = k
    BY <1>1, <2>2 DEF From
  <2> QED
    BY <2>3, ReachSelf DEF Ancestors
<1>6. Answers'
  BY <1>1, NoAnswerYet
<1>7. BaseWalkIsShort'
  <2>1. Common' = Common
    BY <1>1 DEF Common, Ancestors, ReadEdges
  <2> QED
    BY <1>1, <2>1 DEF Inv, BaseWalkIsShort
<1>8. Walking'
  <2>1. Followed'
    BY <1>2, <1>3 DEF Followed
  <2>2. Begun'
    <3>1. From("b") = query.b /\ From("a") = query.a
      BY DEF From
    <3> QED
      BY <1>1, <1>2, <3>1 DEF Begun, Inv
  <2>3. NotPassed'
    <3>1. From("b") = query.b /\ From("a") = query.a
      BY DEF From
    <3>2. CASE query.kind = "ancestor"
      <4>1. sides = {"b"}
        BY <3>2 DEF Sides
      <4>2. marks'[query.a] = {}
        BY <1>2, <3>1, <3>2, <4>1 DEF Inv
      <4> QED
        BY <1>1, <3>2, <4>2 DEF NotPassed
    <3>3. CASE query.kind = "base"
      <4>1. ASSUME NEW k \in Commits
            PROVE  marks'[k] # Sides
        BY <1>2, <3>1, <3>3 DEF Sides
      <4> QED
        BY <1>1, <3>3, <4>1 DEF NotPassed
    <3> QED
      BY <1>1, <3>2, <3>3 DEF NotPassed
  <2>4. FrontierRead'
    <3>1. ASSUME query.kind = "base"
          PROVE  query.a \in history.known /\ query.b \in history.known
      <4>1. \A k \in {query.a, query.b} :
               Reachable(k, DerivedEdges) \subseteq history.known
        BY <3>1 DEF Readable
      <4> QED
        BY <4>1, ReachSelf DEF Inv
    <3>2. \A k \in pending' : marks'[k] # {}
      BY <1>2, <1>3
    <3> QED
      BY <1>1, <1>2, <3>1, <3>2 DEF FrontierRead, From
  <2>5. query.kind # "base" => \A k \in Commits : marks'[k] \subseteq {"b"}
    BY <1>2 DEF Sides
  <2> QED
    BY <1>1, <2>1, <2>2, <2>3, <2>4, <2>5 DEF Walking
<1> QED
  BY <1>4, <1>5, <1>6, <1>7, <1>8 DEF Inv

\* A commit that cannot lead to the ancestor may be dropped.
LEMMA DropKeeps ==
    ASSUME Inv, pc = "walk", query.kind = "ancestor", NEW k \in pending,
           k # query.a, k \notin history.known \/ TooOld(k), Drop(k)
    PROVE  Inv'
<1>1. /\ UNCHANGED <<history, query, pc, marks, expanded, result, base>>
      /\ pending' = pending \ {k}
  BY DEF Drop
<1>2. k \in Commits
  BY DEF Inv, TypeOK
<1>3. TypeOK'
  BY <1>1 DEF Inv, TypeOK, IsHistory, GenerationRule
<1>4. Sound'
  BY <1>1 DEF Inv, Sound, Ancestors, ReadEdges, From
<1>5. Answers'
  BY <1>1, NoAnswerYet
<1>6. BaseWalkIsShort'
  BY <1>1 DEF BaseWalkIsShort
<1>7. Walking'
  <2>1. Followed'
    <3>1. SUFFICES ASSUME NEW j \in Commits \ pending', NEW s \in marks[j]
                   PROVE  TooOld(j) \/ \A p \in ReadEdges[j] : s \in marks[p]
      BY <1>1 DEF Followed, TooOld, Generation, ReadEdges
    <3>2. CASE j = k
      <4>1. k \notin history.known => ReadEdges[k] = {}
        BY <1>2 DEF ReadEdges
      <4> QED
        BY <3>2, <4>1
    <3>3. CASE j # k
      BY <1>1, <3>3 DEF Inv, Walking, Followed
    <3> QED
      BY <3>2, <3>3
  <2> QED
    BY <1>1, <2>1 DEF Inv, Walking, Begun, NotPassed, FrontierRead
<1> QED
  BY <1>3, <1>4, <1>5, <1>6, <1>7 DEF Inv

\* Following the parents of a readable commit keeps the invariant, unless the
\* commit is an answer.
LEMMA ExpandKeeps ==
    ASSUME Inv, pc = "walk", NEW k \in pending, k \in history.known,
           query.kind = "ancestor" => k # query.a,
           query.kind = "base" =>
               /\ Foremost(k) /\ marks[k] # Sides
               /\ \A p \in history.parents[k] : p \in history.known,
           Expand(k)
    PROVE  Inv'
<1> USE Typing
<1> DEFINE news == {p \in history.parents[k] : ~(marks[k] \subseteq marks[p])}
<1>1. /\ UNCHANGED <<history, query, pc, result, base>>
      /\ pending' = (pending \ {k}) \union news
      /\ marks' = [p \in Commits |-> IF p \in news THEN marks[p] \union marks[k]
                                     ELSE marks[p]]
      /\ expanded' = expanded \union {k}
  BY DEF Expand
<1>2. k \in Commits /\ ReadEdges[k] = history.parents[k]
  BY DEF Inv, TypeOK, ReadEdges
<1>3. news \subseteq Commits /\ marks \in [Commits -> SUBSET Sides]
  BY <1>2 DEF Inv, TypeOK
<1>4. k \notin ReadEdges[k] /\ k \notin news
  <2>1. k \notin ReadEdges[k]
    <3>1. SUFFICES ASSUME k \in ReadEdges[k]
                   PROVE  FALSE
      OBVIOUS
    <3>2. Generation(k) < Generation(k)
      BY <1>2, <3>1, GenerationFalls DEF Inv
    <3> QED
      BY <1>2, <3>2 DEF Inv
  <2> QED
    BY <1>2, <2>1
<1>5. \A j \in Commits : marks[j] \subseteq marks'[j]
  BY <1>1, <1>3
<1>6. \A p \in ReadEdges[k] : marks[k] \subseteq marks'[p]
  BY <1>1, <1>2, <1>3 DEF Inv
<1>7. \A j \in Commits : j \notin news => marks'[j] = marks[j]
  BY <1>1
<1> HIDE DEF news
<1>8. TypeOK'
  <2>1. marks' \in [Commits -> SUBSET Sides]
    BY <1>1, <1>2, <1>3
  <2> QED
    BY <1>1, <1>2, <1>3, <2>1 DEF Inv, TypeOK, IsHistory, GenerationRule
<1>9. Sound'
  <2>1. SUFFICES ASSUME NEW j \in Commits, NEW s \in marks'[j]
                 PROVE  j \in Ancestors(From(s))
    BY <1>1 DEF Sound, Ancestors, ReadEdges, From
  <2>2. CASE s \in marks[j]
    BY <2>2 DEF Inv, Sound
  <2>3. CASE s \notin marks[j]
    <3>1. j \in ReadEdges[k] /\ s \in marks[k]
      BY <1>1, <1>2, <2>3 DEF news
    <3>2. k \in Ancestors(From(s)) /\ From(s) \in Commits
      BY <1>2, <1>3, <3>1 DEF Inv, Sound
    <3> QED
      BY <3>1, <3>2, ReachStep, EdgesType DEF Inv, Ancestors
  <2> QED
    BY <2>2, <2>3
<1>10. Answers'
  BY <1>1, NoAnswerYet
<1>11. BaseWalkIsShort'
  <2>1. Common' = Common
    BY <1>1 DEF Common, Ancestors, ReadEdges
  <2>2. SUFFICES ASSUME query.kind = "base"
                 PROVE  k \notin Common
    BY <1>1, <2>1 DEF Inv, BaseWalkIsShort
  <2>3. SUFFICES ASSUME k \in Common
                 PROVE  FALSE
    OBVIOUS
  <2>4. From("a") = query.a /\ From("b") = query.b
    BY DEF From
  <2>5. \A s \in Sides : k \in Ancestors(From(s))
    BY <2>3, <2>4 DEF Common, Sides
  <2>6. \A s \in Sides : s \in marks[k]
    BY <2>2, <2>5, Frontier
  <2>7. marks[k] = Sides
    BY <1>2, <1>3, <2>6
  <2> QED
    BY <2>2, <2>7
<1>12. Walking'
  <2>1. Followed'
    <3>1. SUFFICES ASSUME NEW j \in Commits \ pending', NEW s \in marks'[j]
                   PROVE  \/ query.kind = "ancestor" /\ TooOld(j)
                          \/ \A p \in ReadEdges[j] : s \in marks'[p]
      BY <1>1 DEF Followed, TooOld, Generation, ReadEdges
    <3>2. marks'[j] = marks[j]
      BY <1>1, <1>7
    <3>3. ReadEdges[j] \subseteq Commits
      BY EdgesType DEF Inv
    <3>4. CASE j = k
      BY <1>6, <3>1, <3>2, <3>4
    <3>5. CASE j # k
      <4>1. \/ query.kind = "ancestor" /\ TooOld(j)
            \/ \A p \in ReadEdges[j] : s \in marks[p]
        BY <1>1, <3>1, <3>2, <3>5 DEF Inv, Walking, Followed
      <4> QED
        BY <1>5, <3>3, <4>1
    <3> QED
      BY <3>4, <3>5
  <2>2. Begun'
    BY <1>1, <1>5 DEF Inv, Walking, Begun
  <2>3. NotPassed'
    <3>1. CASE query.kind = "ancestor"
      BY <1>1, <1>7, <3>1 DEF Inv, Walking, NotPassed
    <3>2. CASE query.kind = "base"
      BY <1>1, <1>7, <3>2 DEF Inv, Walking, NotPassed
    <3> QED
      BY <1>1, <3>1, <3>2 DEF NotPassed
  <2>4. FrontierRead'
    <3>1. query.kind = "base" => news \subseteq history.known
      BY DEF news
    <3>2. \A j \in news : marks'[j] # {}
      BY <1>1, <1>3 DEF news
    <3>3. \A j \in pending \ {k} : marks'[j] # {}
      BY <1>5 DEF Inv, Walking, FrontierRead, TypeOK
    <3> QED
      BY <1>1, <3>1, <3>2, <3>3 DEF Inv, Walking, FrontierRead
  <2>5. query.kind # "base" => \A j \in Commits : marks'[j] \subseteq {"b"}
    BY <1>1, <1>2 DEF Inv, Walking
  <2> QED
    BY <1>1, <2>1, <2>2, <2>3, <2>4, <2>5 DEF Walking
<1> QED
  BY <1>8, <1>9, <1>10, <1>11, <1>12 DEF Inv

\* The initial states satisfy the invariant.
LEMMA InitInv == Init => Inv
<1> SUFFICES ASSUME Init
             PROVE  Inv
  OBVIOUS
<1>1. TypeOK
  BY GraphAssumption DEF Init, TypeOK
<1>2. Sound
  BY DEF Init, Sound
<1>3. Walking /\ Answers /\ BaseWalkIsShort
  BY DEF Init, Walking, Answers, AncestryIsExact, BaseIsBest,
         ListingIsComplete, RaisesOnlyOnGaps, BaseWalkIsShort
<1> QED
  BY <1>1, <1>2, <1>3 DEF Inv

\* What a reader must not meet is not met by one that answers "raised".
LEMMA RaiseIsRight ==
    ASSUME Inv, NEW k \in Commits, ~Readable(k) \/ k \notin history.known,
           k \in Ancestors(query.a) \union Ancestors(query.b)
    PROVE  RightAnswer("raised", None)
<1> USE Typing DEF Inv
<1>1. ~(Ancestors(k) \subseteq history.known)
  <2>1. k \in Ancestors(k)
    BY ReachSelf DEF Ancestors
  <2> QED
    BY <2>1, UnreadableHasGap
<1>2. \/ Ancestors(k) \subseteq Ancestors(query.a)
      \/ Ancestors(k) \subseteq Ancestors(query.b)
  BY ReachTransitive
<1> QED
  BY <1>1, <1>2 DEF RightAnswer

\* A commit is its own ancestor.
LEMMA OwnAncestor ==
    ASSUME NEW k \in Commits
    PROVE  k \in Ancestors(k)
BY ReachSelf DEF Ancestors

\* Every pending commit comes from one of the sides.
LEMMA PendingReached ==
    ASSUME Inv, pc = "walk", NEW k \in pending
    PROVE  k \in Ancestors(query.a) \union Ancestors(query.b)
<1>1. k \in Commits
  BY DEF Inv, TypeOK
<1>2. PICK s \in marks[k] : TRUE
  BY DEF Inv, Walking, FrontierRead
<1> QED
  BY <1>1, <1>2 DEF Inv, Sound, From

\* Every step keeps the invariant.
LEMMA NextInv == Inv /\ [Next]_vars => Inv'
<1> SUFFICES ASSUME Inv, [Next]_vars
             PROVE  Inv'
  OBVIOUS
<1> USE Typing
<1>1. CASE StartAncestor
  <2>1. CASE query.a = query.b /\ Answer("yes", None)
    <3>1. RightAnswer("yes", None)
      BY <2>1, OwnAncestor DEF RightAnswer, Inv
    <3> QED
      BY <2>1, <3>1, AnswerKeeps
  <2>2. CASE ~Readable(query.a) /\ Answer("raised", None)
    <3>1. RightAnswer("raised", None)
      BY <2>2, OwnAncestor, RaiseIsRight DEF Inv
    <3> QED
      BY <2>2, <3>1, AnswerKeeps
  <2>3. CASE query.a # query.b /\ Begin({"b"})
    BY <1>1, <2>3, BeginKeeps DEF StartAncestor, Sides
  <2> QED
    BY <1>1, <2>1, <2>2, <2>3 DEF StartAncestor
<1>2. CASE StartBase
  <2>1. CASE query.a = query.b /\ Answer("base", query.a)
    <3>1. query.a \in Common
      BY <2>1, OwnAncestor DEF Inv, Common
    <3>2. \A j \in Common : Generation(j) <= Generation(query.a)
      BY AncestorsAreOlder DEF Inv, Common
    <3>3. RightAnswer("base", query.a)
      BY <3>1, <3>2 DEF Inv, RightAnswer
    <3> QED
      BY <2>1, <3>3, AnswerKeeps
  <2>2. CASE /\ query.a = query.b /\ query.a \notin history.known
             /\ Answer("raised", None)
    <3>1. RightAnswer("raised", None)
      BY <2>2, OwnAncestor, RaiseIsRight DEF Inv
    <3> QED
      BY <2>2, <3>1, AnswerKeeps
  <2>3. CASE /\ ~(Readable(query.a) /\ Readable(query.b))
             /\ Answer("raised", None)
    <3>1. RightAnswer("raised", None)
      BY <2>3, OwnAncestor, RaiseIsRight DEF Inv
    <3> QED
      BY <2>3, <3>1, AnswerKeeps
  <2>4. CASE /\ query.a # query.b /\ Readable(query.a) /\ Readable(query.b)
             /\ Begin(Sides)
    <3>1. query.kind = "base" /\ ~query.lenient
      BY <1>2 DEF StartBase, Inv, TypeOK, Queries
    <3> QED
      BY <1>2, <2>4, <3>1, BeginKeeps DEF StartBase, Sides
  <2> QED
    BY <1>2, <2>1, <2>2, <2>3, <2>4 DEF StartBase
<1>3. CASE StartList
  BY <1>3, BeginKeeps DEF StartList, Sides
<1>4. CASE Exhaust
  <2>1. CASE query.kind = "ancestor"
    <3>1. RightAnswer("no", None)
      BY <1>4, <2>1, ExhaustedAncestry DEF Exhaust, RightAnswer
    <3> QED
      BY <1>4, <2>1, <3>1, AnswerKeeps DEF Exhaust
  <2>2. CASE query.kind = "base"
    <3>1. RightAnswer("disjoint", None)
      BY <1>4, <2>2, ExhaustedBase DEF Exhaust, RightAnswer
    <3> QED
      BY <1>4, <2>2, <3>1, AnswerKeeps DEF Exhaust
  <2>3. CASE query.kind = "list"
    <3>1. RightAnswer("listed", None)
      BY <1>4, <2>3, ExhaustedListing DEF Exhaust, RightAnswer
    <3> QED
      BY <1>4, <2>3, <3>1, AnswerKeeps DEF Exhaust
  <2> QED
    BY <2>1, <2>2, <2>3 DEF Inv, TypeOK, Queries
<1>5. ASSUME NEW k \in Commits, StepAncestor(k)
      PROVE  Inv'
  <2>1. pc = "walk" /\ query.kind = "ancestor" /\ k \in pending
    BY <1>5 DEF StepAncestor
  <2>2. CASE k = query.a /\ Answer("yes", None)
    <3>1. query.a \in Ancestors(query.b)
      BY <2>1, <2>2 DEF Inv, Walking, FrontierRead, Sound, From
    <3> QED
      BY <2>2, <3>1, AnswerKeeps DEF RightAnswer
  <2>3. CASE ~Readable(k) /\ Answer("raised", None)
    BY <2>1, <2>3, PendingReached, RaiseIsRight, AnswerKeeps
  <2>4. CASE /\ k # query.a /\ (k \notin history.known \/ TooOld(k))
             /\ Drop(k)
    BY <2>1, <2>4, DropKeeps
  <2>5. CASE k # query.a /\ k \in history.known /\ Expand(k)
    BY <2>1, <2>5, ExpandKeeps
  <2> QED
    BY <1>5, <2>2, <2>3, <2>4, <2>5 DEF StepAncestor
<1>6. ASSUME NEW k \in Commits, StepBase(k)
      PROVE  Inv'
  <2>1. /\ pc = "walk" /\ query.kind = "base" /\ k \in pending /\ Foremost(k)
        /\ ~query.lenient /\ k \in history.known
    BY <1>6 DEF StepBase, Inv, TypeOK, Queries, Walking, FrontierRead
  <2>2. CASE marks[k] = Sides /\ Answer("base", k)
    <3>1. From("a") = query.a /\ From("b") = query.b
      BY DEF From
    <3>2. k \in Common
      BY <2>2, <3>1 DEF Inv, Sound, Sides, Common
    <3>3. ASSUME NEW j \in Common
          PROVE  Generation(j) <= Generation(k)
      <4>1. j \in Commits /\ \A s \in Sides : j \in Ancestors(From(s))
        BY <3>1 DEF Common, Sides, Ancestors, Reachable
      <4>2. CASE j \in pending
        BY <2>1, <4>2 DEF Foremost
      <4>3. CASE j \notin pending
        <5>1. marks[j] # Sides /\ marks[j] \subseteq Sides
          BY <2>1, <4>1, <4>3 DEF Inv, Walking, NotPassed, TypeOK
        <5>2. PICK s \in Sides : s \notin marks[j]
          BY <5>1
        <5> QED
          BY <2>1, <4>1, <5>2, Frontier
      <4> QED
        BY <4>2, <4>3
    <3>4. RightAnswer("base", k)
      BY <3>2, <3>3 DEF RightAnswer
    <3> QED
      BY <2>2, <3>4, AnswerKeeps
  <2>3. ASSUME NEW p \in history.parents[k], ~Readable(p),
               Answer("raised", None)
        PROVE  Inv'
    <3>1. p \in Commits /\ p \in ReadEdges[k]
      BY <1>6, <2>1, <2>3 DEF Inv, ReadEdges
    <3>2. k \in Ancestors(query.a) \union Ancestors(query.b)
      BY <2>1, PendingReached
    <3>3. p \in Ancestors(query.a) \union Ancestors(query.b)
      BY <3>1, <3>2, ReachStep, EdgesType DEF Inv, Ancestors
    <3> QED
      BY <2>3, <3>1, <3>3, RaiseIsRight, AnswerKeeps
  <2>4. CASE /\ marks[k] # Sides
             /\ \A p \in history.parents[k] : Readable(p)
             /\ Expand(k)
    <3>1. ASSUME NEW p \in history.parents[k]
          PROVE  p \in history.known
      <4>1. p \in Commits
        BY <1>6 DEF Inv
      <4>2. p \in Reachable(p, DerivedEdges)
        BY <4>1, ReachSelf
      <4> QED
        BY <2>1, <2>4, <4>2 DEF Readable
    <3> QED
      BY <2>1, <2>4, <3>1, ExpandKeeps
  <2> QED
    BY <1>6, <2>2, <2>3, <2>4 DEF StepBase
<1>7. ASSUME NEW k \in Commits, StepList(k)
      PROVE  Inv'
  <2>1. pc = "walk" /\ query.kind = "list" /\ k \in pending
    BY <1>7 DEF StepList
  <2>2. CASE k \notin history.known /\ Answer("raised", None)
    BY <2>1, <2>2, PendingReached, RaiseIsRight, AnswerKeeps
  <2>3. CASE k \in history.known /\ Expand(k)
    BY <2>1, <2>3, ExpandKeeps
  <2> QED
    BY <1>7, <2>2, <2>3 DEF StepList
<1>8. CASE UNCHANGED vars
  BY <1>8, SameState
<1> QED
  BY <1>1, <1>2, <1>3, <1>4, <1>5, <1>6, <1>7, <1>8 DEF Next, Step, Finished

-----------------------------------------------------------------------------
(* The theorems.                                                           *)

\* Every reachable state satisfies the invariant.
LEMMA Invariance == Spec => []Inv
BY InitInv, NextInv, PTL DEF Spec

\* The walks of repository_support.py keep their state well typed.
THEOREM TypeCorrect == Spec => []TypeOK
BY Invariance, PTL DEF Inv

\* is_ancestor_commit answers reachability through the commits that can be
\* read, in every history: what its test of generations prunes never holds the
\* ancestor.
THEOREM AncestryExact == Spec => []AncestryIsExact
<1>1. Inv => AncestryIsExact
  BY DEF Inv, Answers
<1> QED
  BY Invariance, <1>1, PTL

\* merge_base_commit returns a common ancestor of the highest generation, or
\* None for histories that share no commit.
THEOREM BaseBest == Spec => []BaseIsBest
<1>1. Inv => BaseIsBest
  BY DEF Inv, Answers
<1> QED
  BY Invariance, <1>1, PTL

\* merge_base_commit never follows the parents of a common ancestor.
THEOREM BaseWalkShort == Spec => []BaseWalkIsShort
<1>1. Inv => BaseWalkIsShort
  BY DEF Inv
<1> QED
  BY Invariance, <1>1, PTL

\* The traversal of log and _collect_commits_to_push finds what is reachable.
THEOREM ListingComplete == Spec => []ListingIsComplete
<1>1. Inv => ListingIsComplete
  BY DEF Inv, Answers
<1> QED
  BY Invariance, <1>1, PTL

\* A walk raises only where a commit of the history is missing.
THEOREM RaisesOnGaps == Spec => []RaisesOnlyOnGaps
<1>1. Inv => RaisesOnlyOnGaps
  BY DEF Inv, Answers
<1> QED
  BY Invariance, <1>1, PTL
=============================================================================
