--------------------------- MODULE DirectoryProofs ---------------------------
(***************************************************************************)
(* Theorems of Directories, for any MaxEntries above 1, any names and any  *)
(* number of entries.                                                      *)
(*                                                                         *)
(* Reading a sound directory:                                              *)
(*   OnePassSuffices    one pass of expand_shards shows every entry, in    *)
(*                      order, each name once, and no shard,               *)
(*   LookupsAgree       the descent by ranges finds what that list holds,  *)
(*   WriterAndReadersAgree   the range a writer rewrites for a name is the *)
(*                      one in which a reader looks for it.                *)
(* Laying a directory out:                                                 *)
(*   OneSplitSuffices   _build_children is sound up to MaxEntries squared  *)
(*                      entries and not beyond,                            *)
(*   SplicingRangesIsSplicing   rewriting the ranges that changed is       *)
(*                      rewriting the directory,                           *)
(*   PruningNeedsNoSplit     removals never make a range too long.         *)
(* Merging:                                                                *)
(*   AlignedRangesMergeAlike   range by range, each name is merged with    *)
(*                      the entries it has in the directories,             *)
(*   MergedRangesMustFit       what that makes is sound if and only if no  *)
(*                      merged range outgrew a node,                       *)
(*   CleanMergesKeepBothSides  the merge of two sets of files.             *)
(*                                                                         *)
(* The idea throughout: a sound sharded directory is a list cut at         *)
(* increasing names (Ranged below), so whatever is sorted within each      *)
(* piece and stays between its cuts is sorted as a whole, and each name    *)
(* belongs to one piece alone.                                             *)
(***************************************************************************)
EXTENDS Directories, SequenceTheorems, WellFoundedInduction, TLAPS

\* A set of numbers has a least one.
LEMMA LeastOf ==
    ASSUME NEW T \in SUBSET Nat, T # {}
    PROVE  \E m \in T : \A n \in T : m <= n
<1> DEFINE less == OpToRel(<, Nat)
<1>1. IsWellFoundedOn(less, Nat)
  BY NatLessThanWellFounded
<1>2. \A m, n \in Nat : m < n => <<m, n>> \in less
  BY DEF OpToRel
<1> HIDE DEF less
<1>3. PICK m \in T : \A n \in T : ~ (<<n, m>> \in less)
  BY <1>1, WFMin
<1>4. ASSUME NEW n \in T
      PROVE  m <= n
  <2>1. m \in Nat /\ n \in Nat
    OBVIOUS
  <2>2. ~(n < m)
    BY <1>2, <1>3, <2>1
  <2> QED
    BY <2>1, <2>2
<1> QED
  BY <1>4

-----------------------------------------------------------------------------
(* Division.                                                               *)

LEMMA Division ==
    ASSUME NEW a \in Nat, NEW b \in Nat \ {0}
    PROVE  /\ a \div b \in Nat
           /\ (a \div b) * b <= a
           /\ a < (a \div b) * b + b
<1>1. a \div b \in Int /\ a % b \in 0 .. b - 1 /\ a = b * (a \div b) + (a % b)
  BY SMT
<1>2. a \div b >= 0
  BY SMT
<1> DEFINE q == a \div b
<1>3. b * q = q * b
  BY <1>1, SMT
<1> HIDE DEF q
<1> QED
  BY <1>1, <1>2, <1>3 DEF q

-----------------------------------------------------------------------------
(* Counting up.                                                            *)

\* What holds of 1 and of the successors of what it holds of.
LEMMA Climb ==
    ASSUME NEW n \in Nat, NEW T, n >= 1 => 1 \in T,
           \A k \in 1 .. n - 1 : k \in T => k + 1 \in T
    PROVE  \A k \in 1 .. n : k \in T
<1> DEFINE missing == {k \in 1 .. n : k \notin T}
<1>1. SUFFICES ASSUME missing # {}
               PROVE  FALSE
  OBVIOUS
<1>2. PICK m \in missing : \A k \in missing : m <= k
  <2>1. missing \in SUBSET Nat
    OBVIOUS
  <2> HIDE DEF missing
  <2> QED
    BY <1>1, <2>1, LeastOf
<1>3. m # 1
  BY <1>2
<1>4. m - 1 \in 1 .. n - 1 /\ m - 1 \in T
  BY <1>2, <1>3
<1>5. (m - 1) + 1 \in T
  BY <1>4
<1> QED
  BY <1>2, <1>5

-----------------------------------------------------------------------------
(* Joining sequences.                                                      *)

\* Each element of s is related by R to those after it.
SortedBy(R, s) == \A i, j \in DOMAIN s : i < j => <<s[i], s[j]>> \in R

\* The sequences that FlattenSeq goes through.
Joining(f, seqs) ==
    /\ f[1] = seqs[1]
    /\ \A k \in 1 .. Len(seqs) - 1 : f[k + 1] = f[k] \o seqs[k + 1]

LEMMA FlattenIs ==
    ASSUME NEW S, NEW seqs \in Seq(Seq(S)), seqs # <<>>
    PROVE  \E f : /\ f \in [1 .. Len(seqs) -> Seq(S)]
                  /\ Joining(f, seqs)
                  /\ FlattenSeq(seqs) = f[Len(seqs)]
<1> DEFINE n == Len(seqs)
           rec(g, k) == g = [i \in 1 .. k |-> IF i = 1 THEN seqs[i] ELSE g[i - 1] \o seqs[i]]
           T == {k \in 1 .. n : \E g : rec(g, k)}
           flatten == CHOOSE g : rec(g, n)
<1>1. n \in Nat \ {0}
  OBVIOUS
<1>2. 1 \in T
  <2> DEFINE g == [i \in 1 .. 1 |-> seqs[i]]
  <2>1. g = [i \in 1 .. 1 |-> IF i = 1 THEN seqs[i] ELSE g[i - 1] \o seqs[i]]
    OBVIOUS
  <2>2. rec(g, 1)
    BY <2>1
  <2> HIDE DEF g, rec
  <2>3. \E h : rec(h, 1)
    BY <2>2
  <2> QED
    BY <1>1, <2>3
<1>3. ASSUME NEW k \in 1 .. n - 1, k \in T
      PROVE  k + 1 \in T
  <2>1. PICK g : rec(g, k)
    BY <1>3
  <2>0. \A i \in 1 .. k : g[i] = IF i = 1 THEN seqs[i] ELSE g[i - 1] \o seqs[i]
    BY <2>1
  <2> DEFINE h == [i \in 1 .. k + 1 |-> IF i = k + 1 THEN g[k] \o seqs[k + 1] ELSE g[i]]
  <2>2. \A i \in 1 .. k : h[i] = g[i]
    BY <1>1
  <2>3. \A i \in 1 .. k + 1 : h[i] = IF i = 1 THEN seqs[i] ELSE h[i - 1] \o seqs[i]
    <3> SUFFICES ASSUME NEW i \in 1 .. k + 1
                 PROVE  h[i] = IF i = 1 THEN seqs[i] ELSE h[i - 1] \o seqs[i]
      OBVIOUS
    <3>1. CASE i = k + 1
      <4>1. i # 1 /\ i - 1 = k /\ k \in 1 .. k
        BY <1>1, <3>1
      <4>2. h[i] = g[k] \o seqs[i] /\ h[i - 1] = g[k]
        BY <2>2, <3>1, <4>1
      <4> QED
        BY <4>1, <4>2
    <3>2. CASE i # k + 1
      <4>1. g[i] = IF i = 1 THEN seqs[i] ELSE g[i - 1] \o seqs[i]
        BY <1>1, <2>0, <3>2
      <4>2. i \in 1 .. k /\ (i # 1 => i - 1 \in 1 .. k)
        BY <1>1, <3>2
      <4>3. h[i] = g[i] /\ (i # 1 => h[i - 1] = g[i - 1])
        BY <2>2, <4>2
      <4> QED
        BY <4>1, <4>3
    <3> QED
      BY <3>1, <3>2
  <2>4. rec(h, k + 1)
    BY <2>3
  <2> HIDE DEF h, rec
  <2>5. \E f : rec(f, k + 1)
    BY <2>4
  <2> QED
    BY <1>1, <2>5
<1>4. n \in T
  <2> HIDE DEF T
  <2>1. \A k \in 1 .. n : k \in T
    BY <1>1, <1>2, <1>3, Climb
  <2> QED
    BY <1>1, <2>1
<1>5. rec(flatten, n)
  <2>1. \E g : rec(g, n)
    BY <1>4
  <2> HIDE DEF rec
  <2> QED
    BY <2>1
<1>6. FlattenSeq(seqs) = flatten[n]
  BY <1>1 DEF FlattenSeq
<1> HIDE DEF flatten
<1>7. Joining(flatten, seqs)
  <2>1. \A i \in 1 .. n : flatten[i] = IF i = 1 THEN seqs[i] ELSE flatten[i - 1] \o seqs[i]
    BY <1>5
  <2>2. flatten[1] = seqs[1]
    BY <1>1, <2>1
  <2>3. ASSUME NEW k \in 1 .. n - 1
        PROVE  flatten[k + 1] = flatten[k] \o seqs[k + 1]
    <3>1. k + 1 \in 1 .. n /\ k + 1 # 1 /\ (k + 1) - 1 = k
      BY <1>1
    <3>2. flatten[k + 1] = flatten[(k + 1) - 1] \o seqs[k + 1]
      BY <2>1, <3>1
    <3> QED
      BY <3>1, <3>2
  <2> QED
    BY <2>2, <2>3 DEF Joining
<1>8. DOMAIN flatten = 1 .. n
  BY <1>5
<1>9. \A k \in 1 .. n : k \in {i \in 1 .. n : flatten[i] \in Seq(S)}
  <2> DEFINE U == {i \in 1 .. n : flatten[i] \in Seq(S)}
  <2>1. 1 \in U
    BY <1>1, <1>7 DEF Joining
  <2>2. ASSUME NEW k \in 1 .. n - 1, k \in U
        PROVE  k + 1 \in U
    <3>1. k + 1 \in 1 .. n /\ flatten[k] \in Seq(S) /\ seqs[k + 1] \in Seq(S)
      BY <1>1, <2>2
    <3>2. flatten[k + 1] = flatten[k] \o seqs[k + 1]
      BY <1>7 DEF Joining
    <3>3. flatten[k] \o seqs[k + 1] \in Seq(S)
      BY <3>1
    <3> QED
      BY <3>1, <3>2, <3>3
  <2> HIDE DEF U
  <2>3. \A k \in 1 .. n : k \in U
    BY <1>1, <2>1, <2>2, Climb
  <2> QED
    BY <2>3 DEF U
<1>10. flatten \in [1 .. n -> Seq(S)]
  <2>1. flatten = [i \in 1 .. n |-> flatten[i]]
    BY <1>5
  <2> QED
    BY <1>9, <2>1
<1> QED
  BY <1>6, <1>7, <1>10

\* The elements of two sequences joined.
LEMMA JoinTwo ==
    ASSUME NEW S, NEW s \in Seq(S), NEW t \in Seq(S)
    PROVE  /\ Entries(s \o t) = Entries(s) \union Entries(t)
           /\ \A R : /\ SortedBy(R, s) /\ SortedBy(R, t)
                     /\ \A x \in Entries(s), y \in Entries(t) : <<x, y>> \in R
                     => SortedBy(R, s \o t)
<1>1. /\ Len(s) \in Nat /\ DOMAIN s = 1 .. Len(s)
      /\ Len(t) \in Nat /\ DOMAIN t = 1 .. Len(t)
  OBVIOUS
<1>2. /\ DOMAIN (s \o t) = 1 .. Len(s) + Len(t)
      /\ \A i \in 1 .. Len(s) : (s \o t)[i] = s[i]
      /\ \A i \in 1 .. Len(t) : (s \o t)[Len(s) + i] = t[i]
  BY <1>1
<1>3. \A i \in DOMAIN (s \o t) : \/ i \in 1 .. Len(s)
                                 \/ \E j \in 1 .. Len(t) : i = Len(s) + j
  <2> SUFFICES ASSUME NEW i \in 1 .. Len(s) + Len(t), i \notin 1 .. Len(s)
               PROVE  \E j \in 1 .. Len(t) : i = Len(s) + j
    BY <1>2
  <2>1. i - Len(s) \in 1 .. Len(t) /\ i = Len(s) + (i - Len(s))
    BY <1>1
  <2> QED
    BY <2>1
<1>4. Entries(s \o t) = Entries(s) \union Entries(t)
  <2>1. Entries(s \o t) \subseteq Entries(s) \union Entries(t)
    BY <1>1, <1>2, <1>3 DEF Entries, ToSet
  <2>2. Entries(s) \subseteq Entries(s \o t)
    BY <1>1, <1>2 DEF Entries, ToSet
  <2>3. Entries(t) \subseteq Entries(s \o t)
    <3> SUFFICES ASSUME NEW i \in 1 .. Len(t)
                 PROVE  t[i] \in Entries(s \o t)
      BY <1>1 DEF Entries, ToSet
    <3>1. Len(s) + i \in DOMAIN (s \o t) /\ (s \o t)[Len(s) + i] = t[i]
      BY <1>1, <1>2
    <3> QED
      BY <3>1 DEF Entries, ToSet
  <2> QED
    BY <2>1, <2>2, <2>3
<1>5. ASSUME NEW R, SortedBy(R, s), SortedBy(R, t),
             \A x \in Entries(s), y \in Entries(t) : <<x, y>> \in R
      PROVE  SortedBy(R, s \o t)
  <2> SUFFICES ASSUME NEW i \in DOMAIN (s \o t), NEW j \in DOMAIN (s \o t), i < j
               PROVE  <<(s \o t)[i], (s \o t)[j]>> \in R
    BY DEF SortedBy
  <2>1. CASE i \in 1 .. Len(s) /\ j \in 1 .. Len(s)
    BY <1>1, <1>2, <1>5, <2>1 DEF SortedBy
  <2>2. CASE i \in 1 .. Len(s) /\ \E k \in 1 .. Len(t) : j = Len(s) + k
    BY <1>1, <1>2, <1>5, <2>2 DEF Entries, ToSet
  <2>3. ASSUME NEW h \in 1 .. Len(t), i = Len(s) + h, NEW k \in 1 .. Len(t), j = Len(s) + k
        PROVE  <<(s \o t)[i], (s \o t)[j]>> \in R
    <3>1. (s \o t)[i] = t[h] /\ (s \o t)[j] = t[k]
      BY <1>2, <2>3
    <3>2. h < k /\ h \in DOMAIN t /\ k \in DOMAIN t
      BY <1>1, <2>3
    <3> QED
      BY <1>5, <3>1, <3>2 DEF SortedBy
  <2>4. ASSUME NEW h \in 1 .. Len(t), i = Len(s) + h, j \in 1 .. Len(s)
        PROVE  FALSE
    BY <1>1, <2>4
  <2> QED
    BY <1>3, <2>1, <2>2, <2>3, <2>4
<1> QED
  BY <1>4, <1>5

\* What FlattenSeq returns: the elements of all the sequences, in order if
\* each sequence is and the elements of each come before those of the next.
LEMMA Flatten ==
    ASSUME NEW S, NEW seqs \in Seq(Seq(S))
    PROVE  /\ FlattenSeq(seqs) \in Seq(S)
           /\ Entries(FlattenSeq(seqs)) = UNION {Entries(seqs[i]) : i \in DOMAIN seqs}
           /\ \A R : /\ \A i \in DOMAIN seqs : SortedBy(R, seqs[i])
                     /\ \A i, j \in DOMAIN seqs : i < j =>
                          \A x \in Entries(seqs[i]), y \in Entries(seqs[j]) : <<x, y>> \in R
                     => SortedBy(R, FlattenSeq(seqs))
<1>1. CASE seqs = <<>>
  <2>1. FlattenSeq(seqs) = <<>>
    BY <1>1 DEF FlattenSeq
  <2>2. DOMAIN seqs = {} /\ <<>> \in Seq(S) /\ Entries(<<>>) = {}
    BY <1>1 DEF Entries, ToSet
  <2>3. \A R : SortedBy(R, <<>>)
    BY DEF SortedBy
  <2> QED
    BY <2>1, <2>2, <2>3
<1>2. CASE seqs # <<>>
  <2> DEFINE n == Len(seqs)
  <2>1. n \in Nat \ {0} /\ DOMAIN seqs = 1 .. n /\ \A i \in 1 .. n : seqs[i] \in Seq(S)
    BY <1>2
  <2>2. PICK f \in [1 .. n -> Seq(S)] : Joining(f, seqs) /\ FlattenSeq(seqs) = f[n]
    BY <1>2, FlattenIs
  <2>3. f[1] = seqs[1] /\ \A k \in 1 .. n - 1 : f[k + 1] = f[k] \o seqs[k + 1]
    BY <2>2 DEF Joining
  <2> DEFINE upto(k) == UNION {Entries(seqs[i]) : i \in 1 .. k}
             U == {k \in 1 .. n : Entries(f[k]) = upto(k)}
  <2> HIDE DEF n
  <2>4. 1 \in U
    <3>1. 1 .. 1 = {1}
      OBVIOUS
    <3> QED
      BY <2>1, <2>3, <3>1
  <2>5. ASSUME NEW k \in 1 .. n - 1, k \in U
        PROVE  k + 1 \in U
    <3>1. k \in 1 .. n /\ k + 1 \in 1 .. n
      BY <2>1
    <3>2. Entries(f[k + 1]) = Entries(f[k]) \union Entries(seqs[k + 1])
      <4>1. f[k] \in Seq(S) /\ seqs[k + 1] \in Seq(S)
        BY <2>1, <2>2, <3>1
      <4>2. Entries(f[k] \o seqs[k + 1]) = Entries(f[k]) \union Entries(seqs[k + 1])
        BY <4>1, JoinTwo
      <4> QED
        BY <2>3, <4>2
    <3>3. 1 .. k + 1 = (1 .. k) \union {k + 1}
      BY <2>1
    <3>4. upto(k + 1) = upto(k) \union Entries(seqs[k + 1])
      BY <3>3
    <3> QED
      BY <2>5, <3>1, <3>2, <3>4
  <2>6. \A k \in 1 .. n : Entries(f[k]) = upto(k)
    <3> HIDE DEF U
    <3>1. \A k \in 1 .. n : k \in U
      BY <2>1, <2>4, <2>5, Climb
    <3> QED
      BY <3>1 DEF U
  <2>7. ASSUME NEW R,
               \A i \in 1 .. n : SortedBy(R, seqs[i]),
               \A i, j \in 1 .. n : i < j =>
                  \A x \in Entries(seqs[i]), y \in Entries(seqs[j]) : <<x, y>> \in R
        PROVE  SortedBy(R, f[n])
    <3> DEFINE V == {k \in 1 .. n : SortedBy(R, f[k])}
    <3>1. 1 \in V
      BY <2>1, <2>3, <2>7
    <3>2. ASSUME NEW k \in 1 .. n - 1, k \in V
          PROVE  k + 1 \in V
      <4>1. k \in 1 .. n /\ k + 1 \in 1 .. n
        BY <2>1
      <4>2. f[k] \in Seq(S) /\ seqs[k + 1] \in Seq(S)
        BY <2>1, <2>2, <4>1
      <4>3. \A x \in Entries(f[k]), y \in Entries(seqs[k + 1]) : <<x, y>> \in R
        <5> SUFFICES ASSUME NEW x \in Entries(f[k]), NEW y \in Entries(seqs[k + 1])
                     PROVE  <<x, y>> \in R
          OBVIOUS
        <5>1. PICK i \in 1 .. k : x \in Entries(seqs[i])
          BY <2>6, <4>1
        <5>2. i \in 1 .. n /\ i < k + 1
          BY <2>1, <5>1
        <5> QED
          BY <2>7, <4>1, <5>1, <5>2
      <4>4. SortedBy(R, f[k] \o seqs[k + 1])
        BY <2>7, <3>2, <4>1, <4>2, <4>3, JoinTwo
      <4> QED
        BY <2>3, <4>1, <4>4
    <3> HIDE DEF V
    <3>3. \A k \in 1 .. n : k \in V
      BY <2>1, <3>1, <3>2, Climb
    <3> QED
      BY <2>1, <3>3 DEF V
  <2> QED
    BY <2>1, <2>2, <2>6, <2>7
<1> QED
  BY <1>1, <1>2

-----------------------------------------------------------------------------
(* Nodes.                                                                  *)

Node(node) ==
    /\ node \in Seq(Entries(node))
    /\ \A e \in Entries(node) : e.name \in Nat

Ascending(node) == \A i, j \in DOMAIN node : i < j => node[i].name < node[j].name

\* A sorted node of files and subdirectories.
Plain(node) ==
    /\ Node(node) /\ Ascending(node)
    /\ \A e \in Entries(node) : e.kind # "shard" /\ (IsSubtree(e) => e.body # <<>>)

\* What a shard points to.
Body(node) == Plain(node) /\ node # <<>> /\ Len(node) <= MaxEntries

\* Shard t begins where shard s and all that it holds have ended.
Before(s, t) == s.name < t.name /\ \A e \in Entries(s.body) : e.name < t.name

\* The shards of a directory, however many.
Ranged(node) ==
    /\ Node(node)
    /\ \A s \in Entries(node) :
         /\ s.kind = "shard" /\ Body(s.body)
         /\ \A e \in Entries(s.body) : e.name >= s.name
    /\ \A i, j \in DOMAIN node : i < j => Before(node[i], node[j])

\* A directory as readers expect it: its node and the bodies of its shards.
SoundDirectory(node) ==
    /\ Node(node) /\ SoundNode(node)
    /\ \A s \in Entries(node) : s.kind = "shard" => Node(s.body) /\ SoundNode(s.body)

Children(node) == Entries(ExpandShards(node))

LEMMA SeqIs ==
    ASSUME NEW S, NEW s \in Seq(S)
    PROVE  /\ Len(s) \in Nat /\ DOMAIN s = 1 .. Len(s)
           /\ Entries(s) = {s[i] : i \in 1 .. Len(s)}
           /\ Entries(s) \subseteq S
           /\ s \in Seq(Entries(s))
<1>1. Len(s) \in Nat /\ DOMAIN s = 1 .. Len(s) /\ s \in [1 .. Len(s) -> S]
  OBVIOUS
<1>2. Entries(s) = {s[i] : i \in 1 .. Len(s)}
  BY <1>1 DEF Entries, ToSet
<1>3. \A i \in 1 .. Len(s) : s[i] \in Entries(s)
  BY <1>2
<1>4. s = [i \in 1 .. Len(s) |-> s[i]]
  BY <1>1
<1> DEFINE E == Entries(s)
<1> HIDE DEF E
<1>5. [i \in 1 .. Len(s) |-> s[i]] \in Seq(E)
  BY <1>1, <1>3, IsASeq DEF E
<1> QED
  BY <1>1, <1>2, <1>3, <1>4, <1>5 DEF E

LEMMA NodeIs ==
    ASSUME NEW node, Node(node)
    PROVE  /\ Len(node) \in Nat /\ DOMAIN node = 1 .. Len(node)
           /\ Entries(node) = {node[i] : i \in 1 .. Len(node)}
           /\ \A i \in 1 .. Len(node) : node[i] \in Entries(node) /\ node[i].name \in Nat
           /\ node = <<>> <=> Len(node) = 0
<1>1. node \in Seq(Entries(node))
  BY DEF Node
<1>2. /\ Len(node) \in Nat /\ DOMAIN node = 1 .. Len(node)
      /\ Entries(node) = {node[i] : i \in 1 .. Len(node)}
  BY <1>1, SeqIs
<1>3. node = <<>> <=> Len(node) = 0
  BY <1>1, EmptySeq
<1> QED
  BY <1>2, <1>3 DEF Node

LEMMA AscendingIs ==
    ASSUME NEW node, Node(node)
    PROVE  ValidNode(node) <=> Ascending(node)
<1>1. /\ Len(node) \in Nat /\ DOMAIN node = 1 .. Len(node)
      /\ \A i \in 1 .. Len(node) : node[i].name \in Nat
  BY NodeIs
<1>2. Ascending(node) => ValidNode(node)
  BY <1>1 DEF Ascending, ValidNode
<1>3. ASSUME ValidNode(node)
      PROVE  Ascending(node)
  <2> SUFFICES ASSUME NEW i \in 1 .. Len(node), NEW j \in 1 .. Len(node), i < j
               PROVE  node[i].name < node[j].name
    BY <1>1 DEF Ascending
  <2> DEFINE n == Len(node) - i
             T == {k \in 1 .. n : node[i].name < node[i + k].name}
  <2>1. n \in Nat
    BY <1>1
  <2>2. n >= 1 => 1 \in T
    BY <1>1, <1>3 DEF ValidNode
  <2>3. ASSUME NEW k \in 1 .. n - 1, k \in T
        PROVE  k + 1 \in T
    <3>1. i + k \in 1 .. Len(node) - 1 /\ (i + k) + 1 = i + (k + 1) /\ i + (k + 1) \in 1 .. Len(node)
      BY <1>1
    <3>2. node[i + k].name < node[(i + k) + 1].name
      BY <1>3, <3>1 DEF ValidNode
    <3>3. node[i].name < node[i + k].name
      BY <2>3
    <3>4. node[i].name < node[i + (k + 1)].name
      BY <1>1, <3>1, <3>2, <3>3
    <3> QED
      BY <1>1, <3>4
  <2>4. j - i \in 1 .. n /\ i + (j - i) = j
    BY <1>1
  <2>5. j - i \in T
    <3> HIDE DEF T, n
    <3> QED
      BY <2>1, <2>2, <2>3, <2>4, Climb
  <2> QED
    BY <2>4, <2>5
<1> QED
  BY <1>2, <1>3

\* A name is in an ascending node at most once.
LEMMA NamesDiffer ==
    ASSUME NEW node, Node(node), Ascending(node),
           NEW d \in Entries(node), NEW e \in Entries(node), d.name = e.name
    PROVE  d = e
<1>1. PICK i \in 1 .. Len(node) : d = node[i]
  BY NodeIs
<1>2. PICK j \in 1 .. Len(node) : e = node[j]
  BY NodeIs
<1>3. i \in DOMAIN node /\ j \in DOMAIN node /\ d.name \in Nat
  BY NodeIs, <1>1, <1>2
<1>4. ~(i < j) /\ ~(j < i)
  BY <1>1, <1>2, <1>3 DEF Ascending
<1>5. i \in Nat /\ j \in Nat
  BY NodeIs
<1> QED
  BY <1>1, <1>2, <1>4, <1>5

\* The layout in two cases: one node, or shards.
LEMMA SoundIs ==
    ASSUME NEW node
    PROVE  SoundDirectory(node) <=> (Plain(node) \/ Ranged(node)) /\ Len(node) <= MaxEntries
<1>1. ASSUME SoundDirectory(node), ~AnyShard(node)
      PROVE  Plain(node) /\ Len(node) <= MaxEntries
  BY <1>1, AscendingIs DEF SoundDirectory, SoundNode, Plain, AnyShard
<1>2. ASSUME SoundDirectory(node), AnyShard(node)
      PROVE  Ranged(node) /\ Len(node) <= MaxEntries
  <2>1. Node(node) /\ ValidNode(node) /\ Ascending(node) /\ Len(node) <= MaxEntries
    BY <1>2, AscendingIs DEF SoundDirectory, SoundNode
  <2>2. /\ Len(node) \in Nat /\ DOMAIN node = 1 .. Len(node)
        /\ Entries(node) = {node[i] : i \in 1 .. Len(node)}
        /\ \A i \in 1 .. Len(node) : node[i] \in Entries(node) /\ node[i].name \in Nat
    BY <2>1, NodeIs
  <2>3. /\ \A s \in Entries(node) : s.kind = "shard" /\ s.body # <<>>
        /\ \A i \in DOMAIN node : \A e \in Entries(node[i].body) :
             /\ e.kind # "shard" /\ e.name >= node[i].name
             /\ i < Len(node) => e.name < node[i + 1].name
    BY <1>2 DEF SoundDirectory, SoundNode, AllShards, IsSubtree
  <2>4. ASSUME NEW s \in Entries(node)
        PROVE  Body(s.body)
    <3>1. Node(s.body) /\ SoundNode(s.body)
      BY <1>2, <2>3 DEF SoundDirectory
    <3>2. \A e \in Entries(s.body) : e.kind # "shard"
      BY <2>2, <2>3
    <3>3. Ascending(s.body)
      BY <3>1, AscendingIs DEF SoundNode
    <3> QED
      BY <2>3, <3>1, <3>2, <3>3 DEF SoundNode, Body, Plain
  <2>5. \A s \in Entries(node) : \A e \in Entries(s.body) : e.name >= s.name
    BY <2>2, <2>3
  <2>6. ASSUME NEW i \in DOMAIN node, NEW j \in DOMAIN node, i < j
        PROVE  Before(node[i], node[j])
    <3>1. node[i].name < node[j].name
      BY <2>1, <2>6 DEF Ascending
    <3>2. i < Len(node) /\ i + 1 \in DOMAIN node /\ i + 1 <= j
      <4>1. Len(node) \in Nat /\ DOMAIN node = 1 .. Len(node)
        BY <2>2
      <4>2. i \in 1 .. Len(node) /\ j \in 1 .. Len(node)
        BY <4>1
      <4> QED
        BY <2>6, <4>1, <4>2
    <3>5. node[i + 1].name \in Nat /\ node[j].name \in Nat
      <4>1. \A k \in DOMAIN node : node[k].name \in Nat
        BY <2>2
      <4> QED
        BY <3>2, <4>1
    <3>6. i + 1 \in Nat /\ j \in Nat
      <4>1. DOMAIN node \subseteq Nat
        BY <2>2
      <4> QED
        BY <3>2, <4>1
    <3>3. node[i + 1].name <= node[j].name
      <4>1. CASE i + 1 = j
        BY <3>5, <4>1
      <4>2. CASE i + 1 < j
        <5>1. node[i + 1].name < node[j].name
          BY <2>1, <3>2, <4>2 DEF Ascending
        <5> QED
          BY <3>5, <5>1
      <4> QED
        BY <3>2, <3>6, <4>1, <4>2
    <3>4. ASSUME NEW e \in Entries(node[i].body)
          PROVE  e.name < node[j].name
      <4>1. e.name < node[i + 1].name
        BY <2>3, <3>2
      <4>2. e.name \in Nat
        BY <2>2, <2>4 DEF Body, Plain, Node
      <4> QED
        BY <3>3, <3>5, <4>1, <4>2
    <3> QED
      BY <3>1, <3>4 DEF Before
  <2> QED
    BY <1>2, <2>1, <2>3, <2>4, <2>5, <2>6 DEF Ranged, SoundDirectory
<1>3. ASSUME Plain(node), Len(node) <= MaxEntries
      PROVE  SoundDirectory(node)
  BY <1>3, AscendingIs DEF SoundDirectory, SoundNode, Plain, AnyShard
<1>4. ASSUME Ranged(node), Len(node) <= MaxEntries
      PROVE  SoundDirectory(node)
  <2>1. /\ Node(node)
        /\ \A s \in Entries(node) : s.kind = "shard" /\ Body(s.body)
        /\ \A s \in Entries(node) : \A e \in Entries(s.body) : e.name >= s.name
        /\ \A i, j \in DOMAIN node : i < j => Before(node[i], node[j])
    BY <1>4 DEF Ranged
  <2>2. /\ Len(node) \in Nat /\ DOMAIN node = 1 .. Len(node)
        /\ \A i \in 1 .. Len(node) : node[i] \in Entries(node)
    BY <2>1, NodeIs
  <2>3. Ascending(node)
    BY <2>1 DEF Ascending, Before
  <2>4. ValidNode(node)
    BY <2>1, <2>3, AscendingIs
  <2>5. \A s \in Entries(node) : Node(s.body) /\ SoundNode(s.body) /\ s.body # <<>>
    <3> SUFFICES ASSUME NEW s \in Entries(node)
                 PROVE  Node(s.body) /\ SoundNode(s.body) /\ s.body # <<>>
      OBVIOUS
    <3>1. Body(s.body)
      BY <2>1
    <3>2. Node(s.body) /\ Ascending(s.body)
      BY <3>1 DEF Body, Plain
    <3>3. ValidNode(s.body)
      BY <3>2, AscendingIs
    <3> QED
      BY <3>1, <3>2, <3>3 DEF Body, Plain, SoundNode, AnyShard
  <2>6. \A i \in DOMAIN node : \A e \in Entries(node[i].body) :
           /\ e.kind # "shard" /\ e.name >= node[i].name
           /\ i < Len(node) => e.name < node[i + 1].name
    <3> SUFFICES ASSUME NEW i \in DOMAIN node, NEW e \in Entries(node[i].body)
                 PROVE  /\ e.kind # "shard" /\ e.name >= node[i].name
                        /\ i < Len(node) => e.name < node[i + 1].name
      OBVIOUS
    <3>1. Body(node[i].body) /\ e.name >= node[i].name
      BY <2>1, <2>2
    <3>2. i < Len(node) => i + 1 \in DOMAIN node /\ i < i + 1
      BY <2>2
    <3> QED
      BY <2>1, <3>1, <3>2 DEF Body, Plain, Before
  <2> QED
    BY <1>4, <2>1, <2>4, <2>5, <2>6 DEF SoundDirectory, SoundNode, AllShards
<1> QED
  BY <1>1, <1>2, <1>3, <1>4

-----------------------------------------------------------------------------
(* Expanding the shards.                                                   *)

\* Names in order.
NameOrder(S) == {pair \in S \X S : pair[1].name < pair[2].name}

LEMMA NamesSorted ==
    ASSUME NEW S, NEW s, s \in Seq(S)
    PROVE  Ascending(s) <=> SortedBy(NameOrder(S), s)
<1>1. \A i \in DOMAIN s : s[i] \in S
  OBVIOUS
<1>2. \A i, j \in DOMAIN s : <<s[i], s[j]>> \in NameOrder(S) <=> s[i].name < s[j].name
  BY <1>1 DEF NameOrder
<1> QED
  BY <1>2 DEF Ascending, SortedBy

\* The children of a sharded directory are those of its shards, in order.
LEMMA ExpandRanged ==
    ASSUME NEW node, Ranged(node)
    PROVE  /\ Children(node) = UNION {Entries(s.body) : s \in Entries(node)}
           /\ Plain(ExpandShards(node))
<1>1. /\ Node(node)
      /\ \A s \in Entries(node) : s.kind = "shard" /\ Body(s.body)
      /\ \A i, j \in DOMAIN node : i < j => Before(node[i], node[j])
  BY DEF Ranged
<1>2. /\ Len(node) \in Nat /\ DOMAIN node = 1 .. Len(node)
      /\ Entries(node) = {node[i] : i \in 1 .. Len(node)}
      /\ \A i \in 1 .. Len(node) : node[i] \in Entries(node) /\ node[i].name \in Nat
  BY <1>1, NodeIs
<1> DEFINE S == UNION {Entries(s.body) : s \in Entries(node)}
           bodies == [i \in 1 .. Len(node) |-> node[i].body]
           less == NameOrder(S)
<1>3. \A i \in 1 .. Len(node) : /\ node[i].body \in Seq(S)
                                /\ Entries(node[i].body) \subseteq S
                                /\ Ascending(node[i].body)
  <2> SUFFICES ASSUME NEW i \in 1 .. Len(node)
               PROVE  /\ node[i].body \in Seq(S)
                      /\ Entries(node[i].body) \subseteq S
                      /\ Ascending(node[i].body)
    OBVIOUS
  <2>1. node[i].body \in Seq(Entries(node[i].body)) /\ Ascending(node[i].body)
    BY <1>1, <1>2 DEF Body, Plain, Node
  <2>2. Entries(node[i].body) \subseteq S
    BY <1>2
  <2> HIDE DEF S
  <2>3. node[i].body \in Seq(S)
    BY <2>1, <2>2, SeqMonotonic
  <2> QED
    BY <2>1, <2>2, <2>3
<1>4. [i \in DOMAIN node |-> IF node[i].kind = "shard" THEN node[i].body ELSE <<node[i]>>]
        = bodies
  BY <1>1, <1>2
<1>5. ExpandShards(node) = FlattenSeq(bodies)
  BY <1>4 DEF ExpandShards
<1>6. bodies \in Seq(Seq(S)) /\ DOMAIN bodies = 1 .. Len(node)
  <2> HIDE DEF S
  <2> QED
    BY <1>2, <1>3, IsASeq
<1>7. /\ FlattenSeq(bodies) \in Seq(S)
      /\ Entries(FlattenSeq(bodies)) = UNION {Entries(bodies[i]) : i \in DOMAIN bodies}
  <2> HIDE DEF S, bodies
  <2> QED
    BY <1>6, Flatten
<1>8. UNION {Entries(bodies[i]) : i \in DOMAIN bodies} = S
  <2>1. \A i \in DOMAIN bodies : bodies[i] = node[i].body /\ node[i] \in Entries(node)
    BY <1>2
  <2>2. \A s \in Entries(node) : \E i \in DOMAIN bodies : s = node[i]
    BY <1>2
  <2> HIDE DEF bodies
  <2>3. {Entries(bodies[i]) : i \in DOMAIN bodies} = {Entries(s.body) : s \in Entries(node)}
    BY <2>1, <2>2
  <2> QED
    BY <2>3
<1>9. \A i \in DOMAIN bodies : SortedBy(less, bodies[i])
  <2> SUFFICES ASSUME NEW i \in 1 .. Len(node)
               PROVE  SortedBy(less, bodies[i])
    BY <1>6
  <2>1. bodies[i] = node[i].body
    OBVIOUS
  <2> HIDE DEF S, bodies
  <2> QED
    BY <1>3, <2>1, NamesSorted
<1>10. \A i, j \in DOMAIN bodies : i < j =>
          \A x \in Entries(bodies[i]), y \in Entries(bodies[j]) : <<x, y>> \in less
  <2> SUFFICES ASSUME NEW i \in 1 .. Len(node), NEW j \in 1 .. Len(node), i < j,
                      NEW x \in Entries(node[i].body), NEW y \in Entries(node[j].body)
               PROVE  x.name < y.name /\ x \in S /\ y \in S
    BY <1>6 DEF NameOrder
  <2>1. x.name < node[j].name
    BY <1>1, <1>2 DEF Before
  <2>2. node[j].name <= y.name
    BY <1>2 DEF Ranged
  <2>3. x.name \in Nat /\ y.name \in Nat /\ node[j].name \in Nat
    BY <1>1, <1>2 DEF Body, Plain, Node
  <2>4. x \in S /\ y \in S
    BY <1>3
  <2> QED
    BY <2>1, <2>2, <2>3, <2>4
<1>11. SortedBy(less, FlattenSeq(bodies))
  <2> HIDE DEF S, bodies, less
  <2> QED
    BY <1>6, <1>9, <1>10, Flatten
<1>12. Ascending(FlattenSeq(bodies))
  <2> HIDE DEF S, bodies
  <2> QED
    BY <1>7, <1>11, NamesSorted
<1>13. \A e \in S : e.name \in Nat /\ e.kind # "shard" /\ (IsSubtree(e) => e.body # <<>>)
  BY <1>1 DEF Body, Plain, Node
<1>14. Entries(FlattenSeq(bodies)) = S
  BY <1>7, <1>8
<1> HIDE DEF S, bodies, less
<1>15. Plain(FlattenSeq(bodies))
  BY <1>7, <1>12, <1>13, <1>14 DEF Plain, Node
<1> QED
  BY <1>5, <1>14, <1>15 DEF S, Children

\* A node without shards is not changed.
LEMMA ExpandPlain ==
    ASSUME NEW node, Plain(node)
    PROVE  ExpandShards(node) = node
<1>1. Node(node) /\ \A e \in Entries(node) : e.kind # "shard"
  BY DEF Plain
<1>2. /\ Len(node) \in Nat /\ DOMAIN node = 1 .. Len(node)
      /\ \A i \in 1 .. Len(node) : node[i] \in Entries(node)
  BY <1>1, NodeIs
<1> DEFINE n == Len(node)
           S == Entries(node)
           singles == [i \in 1 .. n |-> <<node[i]>>]
<1>3. [i \in DOMAIN node |-> IF node[i].kind = "shard" THEN node[i].body ELSE <<node[i]>>]
        = singles
  BY <1>1, <1>2
<1>4. ExpandShards(node) = FlattenSeq(singles)
  BY <1>3 DEF ExpandShards
<1>5. node \in Seq(S)
  BY <1>1 DEF Node
<1> HIDE DEF S
<1>6. singles \in Seq(Seq(S)) /\ Len(singles) = n
  <2>1. \A i \in 1 .. n : <<node[i]>> \in Seq(S)
    BY <1>5
  <2> QED
    BY <1>2, <2>1, IsASeq
<1>7. CASE n = 0
  BY <1>4, <1>5, <1>6, <1>7 DEF FlattenSeq
<1>8. CASE n # 0
  <2> DEFINE V(f) == {k \in 1 .. n : f[k] = SubSeq(node, 1, k)}
  <2>1. PICK f \in [1 .. n -> Seq(S)] : Joining(f, singles) /\ FlattenSeq(singles) = f[n]
    <3>1. singles # <<>>
      BY <1>6, <1>8
    <3> HIDE DEF singles
    <3> QED
      BY <1>6, <3>1, FlattenIs
  <2>2. 1 \in V(f)
    <3>1. f[1] = <<node[1]>>
      BY <1>2, <1>8, <2>1 DEF Joining
    <3>2. SubSeq(node, 1, 1) = <<node[1]>>
      <4>1. 1 \in 1 .. Len(node) /\ 1 \in 1 .. Len(node)
        BY <1>2, <1>8
      <4>2. SubSeq(node, 1, 1) = SubSeq(node, 1, 1 - 1) \o <<node[1]>>
        BY <1>5, <4>1, SubSeqRecursiveSecond
      <4>3. SubSeq(node, 1, 1 - 1) = <<>>
        BY <1>5, SubSeqEmpty
      <4>4. <<>> \o <<node[1]>> = <<node[1]>>
        BY <1>5, <4>1
      <4> QED
        BY <4>2, <4>3, <4>4
    <3> QED
      BY <1>2, <1>8, <3>1, <3>2
  <2>3. ASSUME NEW k \in 1 .. n - 1, k \in V(f)
        PROVE  k + 1 \in V(f)
    <3>1. k + 1 \in 1 .. n
      BY <1>2
    <3>2. f[k + 1] = f[k] \o <<node[k + 1]>>
      BY <1>6, <2>1, <3>1 DEF Joining
    <3>3. SubSeq(node, 1, k + 1) = SubSeq(node, 1, (k + 1) - 1) \o <<node[k + 1]>>
      <4>1. 1 \in 1 .. Len(node) /\ k + 1 \in 1 .. Len(node)
        BY <1>2, <3>1
      <4> QED
        BY <1>5, <4>1, SubSeqRecursiveSecond
    <3>4. (k + 1) - 1 = k
      BY <1>2
    <3> QED
      BY <2>3, <3>1, <3>2, <3>3, <3>4
  <2>4. n \in V(f)
    <3> HIDE DEF V
    <3>1. \A k \in 1 .. n : k \in V(f)
      BY <1>2, <2>2, <2>3, Climb
    <3> QED
      BY <1>2, <1>8, <3>1
  <2>5. SubSeq(node, 1, n) = node
    BY <1>5, SubSeqFull
  <2> QED
    BY <1>4, <2>1, <2>4, <2>5
<1> QED
  BY <1>7, <1>8

\* expand_shards (core/objects/query.py): "Shards never nest, so one pass
\* suffices".  Of a sound directory it returns the children alone, sorted
\* and each name once, whether or not they are spread over shards.
THEOREM OnePassSuffices ==
    ASSUME NEW node, SoundDirectory(node)
    PROVE  /\ ValidNode(ExpandShards(node)) /\ ~AnyShard(ExpandShards(node))
           /\ Children(node) = IF AnyShard(node)
                               THEN UNION {Entries(s.body) : s \in Entries(node)}
                               ELSE Entries(node)
<1>1. CASE Plain(node)
  BY <1>1, ExpandPlain, AscendingIs DEF Plain, AnyShard, Children
<1>2. CASE Ranged(node)
  <2>1. Plain(ExpandShards(node))
        /\ Children(node) = UNION {Entries(s.body) : s \in Entries(node)}
    BY <1>2, ExpandRanged
  <2>2. ValidNode(ExpandShards(node)) /\ ~AnyShard(ExpandShards(node))
    BY <2>1, AscendingIs DEF Plain, AnyShard
  <2>3. ~AnyShard(node) => Entries(node) = {}
    BY <1>2 DEF Ranged, AnyShard
  <2> QED
    BY <2>1, <2>2, <2>3
<1> QED
  BY <1>1, <1>2, SoundIs

-----------------------------------------------------------------------------
(* Finding a name.                                                         *)

\* Where a lookup of n ends in this directory: the loop of lookup_entry goes
\* on in the shard that _descend returns.
Found(node, n) ==
    LET target == Descend(node, n)
    IN  IF target # None /\ target.kind = "shard" THEN Descend(target.body, n) ELSE target

LEMMA GreatestOf ==
    ASSUME NEW n \in Nat, NEW T \in SUBSET (1 .. n), T # {}
    PROVE  \E m \in T : \A i \in T : i <= m
<1> DEFINE U == {n - i : i \in T}
<1>1. U \in SUBSET Nat /\ U # {}
  <2>1. \A i \in T : n - i \in Nat
    OBVIOUS
  <2> QED
    BY <2>1
<1>2. PICK u \in U : \A v \in U : u <= v
  <2> HIDE DEF U
  <2> QED
    BY <1>1, LeastOf
<1>3. PICK m \in T : u = n - m
  BY <1>2
<1>4. ASSUME NEW i \in T
      PROVE  i <= m
  <2>1. n - m <= n - i
    BY <1>2, <1>3
  <2> QED
    BY <2>1
<1> QED
  BY <1>3, <1>4

\* In a node without shards: the entry of that name.
LEMMA DescendPlain ==
    ASSUME NEW node, Plain(node), NEW n \in Nat
    PROVE  /\ \A e \in Entries(node) : e.name = n => Descend(node, n) = e
           /\ n \notin EntryNames(Entries(node)) => Descend(node, n) = None
<1>1. /\ Node(node) /\ Ascending(node)
      /\ \A e \in Entries(node) : e.kind # "shard"
  BY DEF Plain
<1>2. /\ Len(node) \in Nat /\ DOMAIN node = 1 .. Len(node)
      /\ Entries(node) = {node[i] : i \in 1 .. Len(node)}
      /\ \A i \in 1 .. Len(node) : node[i] \in Entries(node) /\ node[i].name \in Nat
  BY <1>1, NodeIs
<1> DEFINE exact == {i \in DOMAIN node : node[i].name = n}
           before == {i \in DOMAIN node : node[i].name < n}
           first == CHOOSE i \in exact : \A j \in exact : i <= j
           last == CHOOSE i \in before : \A j \in before : j <= i
<1>3. Descend(node, n) = IF exact # {} THEN node[first]
                         ELSE IF before # {} /\ node[last].kind = "shard" THEN node[last]
                         ELSE None
  BY DEF Descend
<1>4. ASSUME NEW e \in Entries(node), e.name = n
      PROVE  Descend(node, n) = e
  <2>1. PICK k \in 1 .. Len(node) : e = node[k]
    BY <1>2
  <2>2. k \in exact
    BY <1>2, <1>4, <2>1
  <2>3. exact \in SUBSET Nat
    BY <1>2
  <2>4. first \in exact
    <3> HIDE DEF exact
    <3>1. \E i \in exact : \A j \in exact : i <= j
      BY <2>2, <2>3, LeastOf
    <3> QED
      BY <3>1
  <2> HIDE DEF first
  <2>5. node[first] \in Entries(node) /\ node[first].name = n
    BY <1>2, <2>4
  <2>6. node[first] = e
    BY <1>1, <1>4, <2>5, NamesDiffer
  <2> QED
    BY <1>3, <2>2, <2>6
<1>5. ASSUME n \notin EntryNames(Entries(node))
      PROVE  Descend(node, n) = None
  <2>1. exact = {}
    BY <1>2, <1>5 DEF EntryNames
  <2>2. before # {} => node[last].kind # "shard"
    <3> SUFFICES ASSUME before # {}
                 PROVE  node[last].kind # "shard"
      OBVIOUS
    <3>1. before \in SUBSET (1 .. Len(node))
      BY <1>2
    <3>2. last \in before
      <4> HIDE DEF before
      <4>1. \E i \in before : \A j \in before : j <= i
        BY <1>2, <3>1, GreatestOf
      <4> QED
        BY <4>1
    <3> HIDE DEF last
    <3> QED
      BY <1>1, <1>2, <3>2
  <2> QED
    BY <1>3, <2>1, <2>2
<1> QED
  BY <1>4, <1>5

\* The last range that begins no later than n.
RangeOf(node, n, k) ==
    /\ k \in DOMAIN node /\ node[k].name <= n
    /\ \A j \in DOMAIN node : node[j].name <= n => j <= k

LEMMA DescendRanged ==
    ASSUME NEW node, Ranged(node), NEW n \in Nat
    PROVE  /\ \A k : RangeOf(node, n, k) => Descend(node, n) = node[k]
           /\ ~ (\E k : RangeOf(node, n, k)) =>
                 Descend(node, n) = None /\ \A i \in DOMAIN node : n < node[i].name
<1>1. /\ Node(node)
      /\ \A i, j \in DOMAIN node : i < j => node[i].name < node[j].name
      /\ \A s \in Entries(node) : s.kind = "shard"
  BY DEF Ranged, Before
<1>2. /\ Len(node) \in Nat /\ DOMAIN node = 1 .. Len(node)
      /\ \A i \in 1 .. Len(node) : node[i] \in Entries(node) /\ node[i].name \in Nat
  BY <1>1, NodeIs
<1> DEFINE exact == {i \in DOMAIN node : node[i].name = n}
           before == {i \in DOMAIN node : node[i].name < n}
           first == CHOOSE i \in exact : \A j \in exact : i <= j
           last == CHOOSE i \in before : \A j \in before : j <= i
<1>3. Descend(node, n) = IF exact # {} THEN node[first]
                         ELSE IF before # {} /\ node[last].kind = "shard" THEN node[last]
                         ELSE None
  BY DEF Descend
<1>4. ASSUME NEW k, RangeOf(node, n, k)
      PROVE  Descend(node, n) = node[k]
  <2>1. k \in 1 .. Len(node) /\ node[k].name <= n
        /\ \A j \in 1 .. Len(node) : node[j].name <= n => j <= k
    BY <1>2, <1>4 DEF RangeOf
  <2>2. CASE node[k].name = n
    <3>1. \A i \in exact : i = k
      <4> SUFFICES ASSUME NEW i \in exact
                   PROVE  i = k
        OBVIOUS
      <4>1. i <= k
        BY <1>2, <2>1
      <4>2. ~ (i < k)
        BY <1>1, <1>2, <2>1, <2>2
      <4> QED
        BY <1>2, <2>1, <4>1, <4>2
    <3>2. k \in exact
      BY <1>2, <2>1, <2>2
    <3>3. first = k
      BY <1>2, <3>1, <3>2
    <3> QED
      BY <1>3, <3>2, <3>3
  <2>3. CASE node[k].name # n
    <3>1. node[k].name < n
      BY <1>2, <2>1, <2>3
    <3>2. exact = {}
      <4> SUFFICES ASSUME NEW i \in exact
                   PROVE  FALSE
        OBVIOUS
      <4>1. i \in 1 .. Len(node) /\ i <= k /\ i # k
        BY <1>2, <2>1, <2>3
      <4>2. node[i].name < node[k].name
        BY <1>1, <1>2, <2>1, <4>1
      <4> QED
        BY <1>2, <2>1, <3>1, <4>1, <4>2
    <3>3. k \in before /\ \A j \in before : j <= k
      BY <1>2, <2>1, <3>1
    <3>4. last = k
      <4>1. before \subseteq Nat
        BY <1>2
      <4> HIDE DEF before
      <4>2. \A i \in before : (\A j \in before : j <= i) => i = k
        BY <3>3, <4>1
      <4> QED
        BY <3>3, <4>2
    <3> QED
      BY <1>1, <1>2, <1>3, <2>1, <3>2, <3>3, <3>4
  <2> QED
    BY <2>2, <2>3
<1>5. ASSUME ~ (\E k : RangeOf(node, n, k))
      PROVE  Descend(node, n) = None /\ \A i \in DOMAIN node : n < node[i].name
  <2> DEFINE low == {i \in 1 .. Len(node) : node[i].name <= n}
  <2>1. low = {}
    <3> SUFFICES ASSUME low # {}
                 PROVE  FALSE
      OBVIOUS
    <3>1. low \in SUBSET (1 .. Len(node))
      OBVIOUS
    <3>2. PICK k \in low : \A j \in low : j <= k
      <4> HIDE DEF low
      <4> QED
        BY <1>2, <3>1, GreatestOf
    <3>3. RangeOf(node, n, k)
      BY <1>2, <3>2 DEF RangeOf
    <3> QED
      BY <1>5, <3>3
  <2>2. \A i \in DOMAIN node : n < node[i].name
    BY <1>2, <2>1
  <2>3. exact = {} /\ before = {}
    BY <1>2, <2>2
  <2> QED
    BY <1>3, <2>2, <2>3
<1> QED
  BY <1>4, <1>5

\* A name is nowhere but in its range.
LEMMA ChildInRange ==
    ASSUME NEW node, Ranged(node), NEW e \in Children(node)
    PROVE  /\ e.name \in Nat
           /\ \E k : RangeOf(node, e.name, k) /\ e \in Entries(node[k].body)
<1>1. /\ Node(node)
      /\ \A i, j \in DOMAIN node : i < j => Before(node[i], node[j])
      /\ \A s \in Entries(node) :
           Body(s.body) /\ \A d \in Entries(s.body) : d.name >= s.name
  BY DEF Ranged
<1>2. /\ Len(node) \in Nat /\ DOMAIN node = 1 .. Len(node)
      /\ Entries(node) = {node[i] : i \in 1 .. Len(node)}
      /\ \A i \in 1 .. Len(node) : node[i] \in Entries(node) /\ node[i].name \in Nat
  BY <1>1, NodeIs
<1>3. PICK k \in 1 .. Len(node) : e \in Entries(node[k].body)
  BY <1>2, ExpandRanged
<1>4. e.name \in Nat /\ node[k].name <= e.name
  BY <1>1, <1>2, <1>3 DEF Body, Plain, Node
<1>5. ASSUME NEW j \in 1 .. Len(node), node[j].name <= e.name
      PROVE  j <= k
  <2>1. ASSUME k < j
        PROVE  FALSE
    <3>1. e.name < node[j].name
      BY <1>1, <1>2, <1>3, <2>1 DEF Before
    <3>2. node[j].name \in Nat
      BY <1>2
    <3> QED
      BY <1>4, <1>5, <3>1, <3>2
  <2> QED
    BY <1>2, <2>1
<1> QED
  BY <1>2, <1>3, <1>4, <1>5 DEF RangeOf

\* _descend (core/objects/query.py:61) on a directory in any sound layout:
\* a lookup by path, which enters the shard before the name, a directory
\* listing, which searches the expanded node, and the children by name that
\* diff and merge compare give the same answer: the entry of that name, or
\* none.  No name hides before, between or after the ranges.
THEOREM LookupsAgree ==
    ASSUME NEW node, SoundDirectory(node), None \notin Entries(node), NEW n \in Nat
    PROVE  /\ \A e \in Children(node) : e.name = n => Found(node, n) = e
           /\ n \notin EntryNames(Children(node)) => Found(node, n) = None
           /\ Found(node, n) = Descend(ExpandShards(node), n)
           /\ Found(node, n) = ChildNamed(node, n)
<1>1. Plain(ExpandShards(node))
  BY SoundIs, ExpandRanged, ExpandPlain
<1>2. /\ \A e \in Children(node) : e.name = n => Descend(ExpandShards(node), n) = e
      /\ n \notin EntryNames(Children(node)) => Descend(ExpandShards(node), n) = None
  BY <1>1, DescendPlain DEF Children
<1>3. /\ \A e \in Children(node) : e.name = n => ChildNamed(node, n) = e
      /\ n \notin EntryNames(Children(node)) => ChildNamed(node, n) = None
  <2> DEFINE hits == {e \in Children(node) : e.name = n}
  <2>1. ChildNamed(node, n) = IF hits = {} THEN None ELSE CHOOSE e \in hits : TRUE
    BY DEF ChildNamed, Children
  <2>2. \A d, e \in hits : d = e
    BY <1>1, NamesDiffer DEF Plain, Children
  <2>3. \A e \in hits : (CHOOSE d \in hits : TRUE) = e
    BY <2>2
  <2> QED
    BY <2>1, <2>3 DEF EntryNames
<1>4. /\ \A e \in Children(node) : e.name = n => Found(node, n) = e
      /\ n \notin EntryNames(Children(node)) => Found(node, n) = None
  <2>1. CASE Plain(node)
    <3>1. ExpandShards(node) = node
      BY <2>1, ExpandPlain
    <3>2. /\ \A e \in Entries(node) : e.name = n => Descend(node, n) = e
          /\ n \notin EntryNames(Entries(node)) => Descend(node, n) = None
      BY <1>2, <3>1 DEF Children
    <3>3. ASSUME NEW e \in Entries(node), e.name = n
          PROVE  Found(node, n) = e
      BY <2>1, <3>2, <3>3 DEF Found, Plain
    <3>4. ASSUME n \notin EntryNames(Entries(node))
          PROVE  Found(node, n) = None
      BY <3>2, <3>4 DEF Found
    <3> QED
      BY <3>1, <3>3, <3>4 DEF Children
  <2>2. CASE Ranged(node)
    <3>1. /\ Node(node)
          /\ \A s \in Entries(node) : s.kind = "shard" /\ Body(s.body)
      BY <2>2 DEF Ranged
    <3>2. DOMAIN node = 1 .. Len(node) /\ \A i \in 1 .. Len(node) : node[i] \in Entries(node)
      BY <3>1, NodeIs
    <3>3. ASSUME NEW k, RangeOf(node, n, k)
          PROVE  Found(node, n) = Descend(node[k].body, n)
      <4>1. Descend(node, n) = node[k]
        BY <2>2, <3>3, DescendRanged
      <4>2. node[k] \in Entries(node)
        BY <3>2, <3>3 DEF RangeOf
      <4> QED
        BY <3>1, <4>1, <4>2 DEF Found
    <3>4. ASSUME NEW e \in Children(node), e.name = n
          PROVE  Found(node, n) = e
      <4>1. PICK k : RangeOf(node, n, k) /\ e \in Entries(node[k].body)
        BY <2>2, <3>4, ChildInRange
      <4>2. Plain(node[k].body)
        BY <3>1, <3>2, <4>1 DEF RangeOf, Body
      <4>3. Descend(node[k].body, n) = e
        BY <3>4, <4>1, <4>2, DescendPlain
      <4> QED
        BY <3>3, <4>1, <4>3
    <3>5. ASSUME n \notin EntryNames(Children(node))
          PROVE  Found(node, n) = None
      <4>1. CASE \E k : RangeOf(node, n, k)
        <5>1. PICK k : RangeOf(node, n, k)
          BY <4>1
        <5>2. Plain(node[k].body) /\ node[k] \in Entries(node)
          BY <3>1, <3>2, <5>1 DEF RangeOf, Body
        <5>3. n \notin EntryNames(Entries(node[k].body))
          BY <2>2, <3>5, <5>2, ExpandRanged DEF EntryNames
        <5>4. Descend(node[k].body, n) = None
          BY <5>2, <5>3, DescendPlain
        <5> QED
          BY <3>3, <5>1, <5>4
      <4>2. CASE ~ \E k : RangeOf(node, n, k)
        <5>1. Descend(node, n) = None
          BY <2>2, <4>2, DescendRanged
        <5> QED
          BY <5>1 DEF Found
      <4> QED
        BY <4>1, <4>2
    <3> QED
      BY <3>4, <3>5
  <2> QED
    BY <2>1, <2>2, SoundIs
<1>5. n \in EntryNames(Children(node)) => \E e \in Children(node) : e.name = n
  BY DEF EntryNames
<1> QED
  BY <1>2, <1>3, <1>4, <1>5

-----------------------------------------------------------------------------
(* Splitting.                                                              *)

LEMMA Times ==
    ASSUME NEW x \in Nat, NEW y \in Nat, NEW b \in Nat
    PROVE  /\ x <= y => x * b <= y * b
           /\ (x + 1) * b = x * b + b
           /\ x * b \in Nat
           /\ x * b < y * b => x < y
<1>1. x * b \in Nat /\ (x + 1) * b = x * b + b
  BY SMT
<1>2. ASSUME NEW u \in Nat, NEW v \in Nat, u <= v
      PROVE  u * b <= v * b
  <2>1. PICK d \in Nat : v = u + d
    <3>1. v - u \in Nat /\ v = u + (v - u)
      BY <1>2
    <3> QED
      BY <3>1
  <2>2. v * b = u * b + d * b /\ d * b \in Nat /\ u * b \in Nat
    BY <2>1, SMT
  <2> QED
    BY <2>2
<1>3. x <= y => x * b <= y * b
  BY <1>2
<1>4. y <= x => y * b <= x * b
  BY <1>2
<1>5. y * b \in Nat
  BY SMT
<1> QED
  BY <1>1, <1>3, <1>4, <1>5

LEMMA CeilDivIs ==
    ASSUME NEW a \in Nat, NEW b \in Nat \ {0}
    PROVE  /\ CeilDiv(a, b) \in Nat
           /\ a <= CeilDiv(a, b) * b
           /\ CeilDiv(a, b) * b < a + b
           /\ CeilDiv(a, b) = 0 <=> a = 0
<1> DEFINE q == (a + b - 1) \div b
<1>1. CeilDiv(a, b) = q
  BY DEF CeilDiv
<1>2. a + b - 1 \in Nat
  OBVIOUS
<1> HIDE DEF q
<1>3. q \in Nat /\ q * b <= a + b - 1 /\ a + b - 1 < q * b + b
  BY <1>2, Division DEF q
<1>4. q * b \in Nat /\ 0 * b = 0
  BY <1>3, Times
<1>5. q # 0 => b <= q * b
  <2> SUFFICES ASSUME q # 0
               PROVE  b <= q * b
    OBVIOUS
  <2>1. 1 <= q /\ 1 * b = b
    BY <1>3
  <2> QED
    BY <1>3, <2>1, Times
<1> QED
  BY <1>1, <1>3, <1>4, <1>5

\* Piece i of c has the elements of seq from (i - 1) * size + 1 on, and
\* every element is in a piece.
PiecesOf(c, seq, size) ==
    /\ \A i \in 1 .. Len(c) :
         /\ (i - 1) * size \in Nat
         /\ Len(c[i]) \in 1 .. size
         /\ \A j \in 1 .. Len(c[i]) : /\ (i - 1) * size + j \in 1 .. Len(seq)
                                      /\ c[i][j] = seq[(i - 1) * size + j]
    /\ \A h \in 1 .. Len(seq) : \E i \in 1 .. Len(c) :
         \E j \in 1 .. Len(c[i]) : h = (i - 1) * size + j

LEMMA ChunksAre ==
    ASSUME NEW S, NEW seq \in Seq(S), NEW size \in Nat \ {0}
    PROVE  /\ Chunks(seq, size) \in Seq(Seq(S))
           /\ Len(Chunks(seq, size)) = CeilDiv(Len(seq), size)
           /\ PiecesOf(Chunks(seq, size), seq, size)
<1> DEFINE n == Len(seq)
           m == CeilDiv(n, size)
           low(i) == (i - 1) * size + 1
           up(i) == Least(i * size, n)
           chunks == [i \in 1 .. m |-> SubSeq(seq, low(i), up(i))]
<1>1. n \in Nat /\ \A h \in 1 .. n : seq[h] \in S
  OBVIOUS
<1>2. m \in Nat /\ n <= m * size /\ m * size < n + size
  BY <1>1, CeilDivIs
<1>3. Chunks(seq, size) = chunks
  BY DEF Chunks
<1> HIDE DEF m
<1>4. ASSUME NEW i \in 1 .. m
      PROVE  /\ (i - 1) * size \in Nat /\ i * size = (i - 1) * size + size
             /\ low(i) \in 1 .. n /\ up(i) \in low(i) .. n
             /\ up(i) <= i * size
             /\ up(i) = n \/ up(i) = i * size
  <2>1. i - 1 \in Nat /\ i \in Nat /\ (i - 1) + 1 = i /\ i <= m
    BY <1>2
  <2>2. (i - 1) * size \in Nat /\ i * size = (i - 1) * size + size
    BY <2>1, Times
  <2>3. i * size <= m * size
    BY <1>2, <2>1, Times
  <2>4. m * size \in Nat
    BY <1>2, Times
  <2>5. (i - 1) * size < n
    BY <1>1, <1>2, <2>2, <2>3, <2>4
  <2> QED
    BY <1>1, <2>2, <2>5 DEF Least
<1>5. ASSUME NEW i \in 1 .. m
      PROVE  /\ chunks[i] \in Seq(S)
             /\ Len(chunks[i]) = up(i) - low(i) + 1
             /\ \A j \in 1 .. Len(chunks[i]) : chunks[i][j] = seq[low(i) + j - 1]
  <2> DEFINE l == low(i)
             u == up(i)
  <2>1. l \in 1 .. n /\ u \in l .. n
    BY <1>4
  <2>2. \A h \in l .. u : seq[h] \in S
    BY <1>1, <2>1
  <2>3. chunks[i] = SubSeq(seq, l, u)
    OBVIOUS
  <2> HIDE DEF l, u, chunks
  <2>4. l \in Int /\ u \in Int
    BY <1>1, <2>1
  <2>5. /\ SubSeq(seq, l, u) \in Seq(S)
        /\ Len(SubSeq(seq, l, u)) = IF l <= u THEN u - l + 1 ELSE 0
        /\ \A h \in 1 .. u - l + 1 : SubSeq(seq, l, u)[h] = seq[l + h - 1]
    BY <2>2, <2>4, SubSeqProperties
  <2> QED
    BY <1>1, <2>1, <2>3, <2>5 DEF l, u
<1>6. ASSUME NEW i \in 1 .. m
      PROVE  /\ Len(chunks[i]) \in 1 .. size
             /\ \A j \in 1 .. Len(chunks[i]) :
                  /\ (i - 1) * size + j \in 1 .. n
                  /\ chunks[i][j] = seq[(i - 1) * size + j]
  <2> HIDE DEF chunks, up
  <2>1. Len(chunks[i]) \in 1 .. size
    BY SMTT(30), <1>1, <1>4, <1>5
  <2>2. ASSUME NEW j \in 1 .. Len(chunks[i])
        PROVE  (i - 1) * size + j \in 1 .. n /\ low(i) + j - 1 = (i - 1) * size + j
    BY SMTT(30), <1>1, <1>4, <1>5
  <2> QED
    BY <1>5, <2>1, <2>2
<1>7. ASSUME NEW h \in 1 .. n
      PROVE  \E i \in 1 .. m : \E j \in 1 .. Len(chunks[i]) : h = (i - 1) * size + j
  <2> DEFINE i == CeilDiv(h, size)
  <2>1. h \in Nat /\ h # 0
    BY <1>1
  <2>2. i \in Nat /\ h <= i * size /\ i * size < h + size /\ i # 0
    BY <2>1, CeilDivIs
  <2> HIDE DEF i
  <2>3. i - 1 \in Nat /\ (i - 1) + 1 = i
    BY <2>2
  <2>4. (i - 1) * size \in Nat /\ i * size = (i - 1) * size + size
    BY <2>3, Times
  <2>5. m * size \in Nat
    BY <1>2, Times
  <2>6. (i - 1) * size < m * size
    BY <1>1, <1>2, <2>1, <2>2, <2>4, <2>5
  <2>7. i \in 1 .. m
    <3>1. i - 1 < m
      BY <1>2, <2>3, <2>6, Times
    <3> QED
      BY <1>2, <2>2, <3>1
  <2>8. h - (i - 1) * size \in 1 .. Len(chunks[i])
    <3> DEFINE x == (i - 1) * size
    <3>1. Len(chunks[i]) = up(i) - (x + 1) + 1
      BY <1>5, <2>7
    <3>2. x \in Nat /\ up(i) \in Nat /\ h <= up(i)
      <4>1. up(i) \in low(i) .. n /\ low(i) \in 1 .. n /\ (up(i) = n \/ up(i) = i * size)
        BY <1>4, <2>7
      <4> HIDE DEF up
      <4> QED
        BY <1>1, <2>2, <2>4, <4>1
    <3>3. x < h
      BY <2>1, <2>2, <2>4
    <3> HIDE DEF x, chunks, up
    <3>4. h - x \in 1 .. Len(chunks[i])
      BY <2>1, <3>1, <3>2, <3>3
    <3> QED
      BY <3>4 DEF x
  <2>9. h = (i - 1) * size + (h - (i - 1) * size)
    BY <2>1, <2>4
  <2> QED
    BY <2>7, <2>8, <2>9
<1>8. chunks \in Seq(Seq(S)) /\ Len(chunks) = m
  <2> HIDE DEF chunks
  <2>1. chunks \in [1 .. m -> Seq(S)]
    <3>1. chunks = [i \in 1 .. m |-> chunks[i]]
      BY DEF chunks
    <3> QED
      BY <1>5, <3>1
  <2> QED
    BY <1>2, <2>1
<1>9. PiecesOf(chunks, seq, size)
  <2> HIDE DEF chunks
  <2> QED
    BY <1>4, <1>6, <1>7, <1>8 DEF PiecesOf
<1> QED
  BY <1>3, <1>8, <1>9 DEF m

\* Cut a sorted node into pieces and point a shard at each.
LEMMA SplitRanged ==
    ASSUME NEW node, Plain(node), NEW size \in 1 .. MaxEntries
    PROVE  LET shards == AsShards(Chunks(node, size))
           IN  /\ Ranged(shards)
               /\ Len(shards) = CeilDiv(Len(node), size)
               /\ UNION {Entries(s.body) : s \in Entries(shards)} = Entries(node)
               /\ \A s \in Entries(shards) : \E e \in Entries(s.body) : e.name = s.name
<1> DEFINE S == Entries(node)
           m == CeilDiv(Len(node), size)
           c == Chunks(node, size)
           at(i) == (i - 1) * size
           shards == AsShards(c)
<1>1. /\ node \in Seq(S) /\ Ascending(node)
      /\ \A e \in S : e.name \in Nat /\ e.kind # "shard" /\ (IsSubtree(e) => e.body # <<>>)
  BY DEF Plain, Node
<1>2. Len(node) \in Nat /\ DOMAIN node = 1 .. Len(node)
      /\ \A h \in 1 .. Len(node) : node[h] \in S
  BY NodeIs DEF Plain
<1>3. size \in Nat \ {0} /\ MaxEntries \in Nat
  BY DirectoriesAssumption
<1>4. m \in Nat
  BY <1>2, <1>3, CeilDivIs
<1> HIDE DEF S
<1>5. /\ c \in Seq(Seq(S)) /\ Len(c) = m
      /\ \A i \in 1 .. m : /\ at(i) \in Nat
                           /\ Len(c[i]) \in 1 .. size
                           /\ \A j \in 1 .. Len(c[i]) : /\ at(i) + j \in 1 .. Len(node)
                                                        /\ c[i][j] = node[at(i) + j]
      /\ \A h \in 1 .. Len(node) : \E i \in 1 .. m : \E j \in 1 .. Len(c[i]) : h = at(i) + j
  <2>1. node \in Seq(S) /\ size \in Nat \ {0}
    BY <1>1, <1>3
  <2>2. c \in Seq(Seq(S)) /\ Len(c) = m /\ PiecesOf(c, node, size)
    BY <2>1, ChunksAre
  <2> HIDE DEF c, m
  <2> QED
    BY <2>2 DEF PiecesOf
<1> HIDE DEF c, m
<1>6. DOMAIN c = 1 .. m /\ \A i \in 1 .. m : c[i] \in Seq(S)
  BY <1>4, <1>5
<1>7. ASSUME NEW i \in 1 .. m
      PROVE  /\ Len(c[i]) \in Nat \ {0} /\ Len(c[i]) <= MaxEntries
             /\ DOMAIN c[i] = 1 .. Len(c[i])
             /\ Entries(c[i]) = {c[i][j] : j \in 1 .. Len(c[i])}
             /\ Entries(c[i]) \subseteq S
             /\ c[i] \in Seq(Entries(c[i])) /\ c[i] # <<>>
  <2>1. c[i] \in Seq(S) /\ Len(c[i]) \in 1 .. size
    BY <1>5, <1>6
  <2>2. c[i] # <<>>
    BY <2>1
  <2>3. /\ Len(c[i]) \in Nat /\ DOMAIN c[i] = 1 .. Len(c[i])
        /\ Entries(c[i]) = {c[i][j] : j \in 1 .. Len(c[i])}
        /\ Entries(c[i]) \subseteq S
        /\ c[i] \in Seq(Entries(c[i]))
    BY <2>1, SeqIs
  <2>4. Len(c[i]) # 0 /\ Len(c[i]) <= MaxEntries
    BY <1>3, <2>1
  <2> QED
    BY <2>2, <2>3, <2>4
<1>8. ASSUME NEW i \in 1 .. m
      PROVE  Body(c[i])
  <2>1. Node(c[i])
    BY <1>1, <1>7 DEF Node
  <2>2. Ascending(c[i])
    <3> SUFFICES ASSUME NEW j \in 1 .. Len(c[i]), NEW k \in 1 .. Len(c[i]), j < k
                 PROVE  c[i][j].name < c[i][k].name
      BY <1>7 DEF Ascending
    <3>1. at(i) + j < at(i) + k
      BY <1>5
    <3>2. node[at(i) + j].name < node[at(i) + k].name
      BY <1>1, <1>2, <1>5, <3>1 DEF Ascending
    <3> QED
      BY <1>5, <3>2
  <2> QED
    BY <1>1, <1>7, <2>1, <2>2 DEF Body, Plain
<1>9. shards = [i \in 1 .. m |-> AsShard(c[i])]
  BY <1>6 DEF AsShards
<1> HIDE DEF shards
<1>10. ASSUME NEW i \in 1 .. m
       PROVE  /\ shards[i].name = c[i][1].name /\ shards[i].kind = "shard" /\ shards[i].body = c[i]
              /\ 1 \in 1 .. Len(c[i]) /\ c[i][1] \in Entries(c[i])
              /\ shards[i].name \in Nat
  <2>1. shards[i] = [name |-> c[i][1].name, kind |-> "shard", body |-> c[i]]
    BY <1>9 DEF AsShard, Shard
  <2>2. 1 \in 1 .. Len(c[i]) /\ c[i][1] \in Entries(c[i])
    BY <1>7
  <2>3. c[i][1].name \in Nat
    BY <1>1, <1>7, <2>2
  <2> QED
    BY <2>1, <2>2, <2>3
<1>11. /\ shards \in Seq(Entries(shards)) /\ Len(shards) = m /\ DOMAIN shards = 1 .. m
       /\ Entries(shards) = {shards[i] : i \in 1 .. m}
  <2> DEFINE T == {AsShard(c[i]) : i \in 1 .. m}
  <2>1. shards \in Seq(T) /\ Len(shards) = m
    <3>1. \A i \in 1 .. m : AsShard(c[i]) \in T
      OBVIOUS
    <3> HIDE DEF T
    <3>2. [i \in 1 .. m |-> AsShard(c[i])] \in Seq(T)
      BY <1>4, <3>1, IsASeq
    <3> QED
      BY <1>4, <1>9, <3>2
  <2> HIDE DEF T
  <2> QED
    BY <2>1, SeqIs
<1>12. Node(shards)
  BY <1>10, <1>11 DEF Node
<1>13. \A s \in Entries(shards) :
         /\ s.kind = "shard" /\ Body(s.body)
         /\ \A e \in Entries(s.body) : e.name >= s.name
         /\ \E e \in Entries(s.body) : e.name = s.name
  <2> SUFFICES ASSUME NEW i \in 1 .. m
               PROVE  /\ shards[i].kind = "shard" /\ Body(shards[i].body)
                      /\ \A e \in Entries(shards[i].body) : e.name >= shards[i].name
                      /\ \E e \in Entries(shards[i].body) : e.name = shards[i].name
    BY <1>11
  <2>1. ASSUME NEW j \in 1 .. Len(c[i])
        PROVE  c[i][j].name >= c[i][1].name
    <3>1. CASE j = 1
      BY <1>1, <1>7, <1>10, <3>1
    <3>2. CASE j # 1
      <4>1. c[i][1].name < c[i][j].name
        BY <1>7, <1>8, <3>2 DEF Body, Plain, Ascending
      <4>2. c[i][1].name \in Nat /\ c[i][j].name \in Nat
        BY <1>1, <1>7, <1>10
      <4> QED
        BY <4>1, <4>2
    <3> QED
      BY <3>1, <3>2
  <2>2. \A e \in Entries(c[i]) : e.name >= c[i][1].name
    BY <1>7, <2>1
  <2> QED
    BY <1>8, <1>10, <2>2
<1>14. ASSUME NEW i \in 1 .. m, NEW k \in 1 .. m, i < k
       PROVE  Before(shards[i], shards[k])
  <2>1. ASSUME NEW j \in 1 .. Len(c[i])
        PROVE  c[i][j].name < c[k][1].name
    <3>1. at(i) + size <= at(k)
      <4>1. i - 1 \in Nat /\ k - 1 \in Nat /\ (i - 1) + 1 = i /\ i <= k - 1 /\ i \in Nat
        BY <1>4, <1>14
      <4>2. i * size = at(i) + size /\ i * size <= at(k)
        BY <1>3, <4>1, Times
      <4> QED
        BY <4>2
    <3>2. at(i) + j < at(k) + 1
      <4>1. at(i) \in Nat /\ at(k) \in Nat /\ j \in Nat /\ j <= size
        <5>1. at(i) \in Nat /\ at(k) \in Nat /\ Len(c[i]) \in 1 .. size
          BY <1>5
        <5> HIDE DEF at
        <5> QED
          BY <1>3, <5>1
      <4> HIDE DEF at
      <4> QED
        BY <1>3, <3>1, <4>1
    <3>3. at(i) + j \in 1 .. Len(node) /\ at(k) + 1 \in 1 .. Len(node)
          /\ c[i][j] = node[at(i) + j] /\ c[k][1] = node[at(k) + 1]
      BY <1>5, <1>10
    <3> HIDE DEF at
    <3> QED
      BY <1>1, <1>2, <3>2, <3>3 DEF Ascending
  <2>2. \A e \in Entries(c[i]) : e.name < c[k][1].name
    <3>1. Entries(c[i]) = {c[i][j] : j \in 1 .. Len(c[i])}
      BY <1>7
    <3> QED
      BY <2>1, <3>1
  <2> QED
    BY <1>10, <2>2 DEF Before
<1>15. Ranged(shards)
  BY <1>11, <1>12, <1>13, <1>14 DEF Ranged
<1>16. UNION {Entries(s.body) : s \in Entries(shards)} = S
  <2>1. ASSUME NEW e \in S
        PROVE  \E i \in 1 .. m : e \in Entries(c[i])
    <3>1. PICK h \in 1 .. Len(node) : e = node[h]
      BY NodeIs DEF S, Plain
    <3>2. PICK i \in 1 .. m : \E j \in 1 .. Len(c[i]) : h = at(i) + j
      BY <1>5
    <3>3. PICK j \in 1 .. Len(c[i]) : h = at(i) + j
      BY <3>2
    <3>4. c[i][j] = node[at(i) + j]
      BY <1>5
    <3>5. e = c[i][j]
      BY <3>1, <3>3, <3>4
    <3> QED
      BY <1>7, <3>5
  <2> QED
    BY <1>7, <1>10, <1>11, <2>1
<1> QED
  BY <1>11, <1>13, <1>15, <1>16 DEF S, m, c, shards

\* _build_children (core/services/tree.py:175): as long as MAX_TREE_ENTRIES
\* nodes hold them all, the children of a directory, sorted and each name
\* once, become a directory that every reader understands, with the same
\* children.  With one child more the shard pointers overflow their node.
THEOREM OneSplitSuffices ==
    ASSUME NEW node, Plain(node)
    PROVE  /\ Len(node) <= MaxEntries => SoundDirectory(node)
           /\ Children(Split(node)) = Entries(node)
           /\ SoundDirectory(Split(node)) <=> Len(node) <= MaxEntries * MaxEntries
<1>1. MaxEntries \in Nat \ {0} /\ MaxEntries \in 1 .. MaxEntries
  BY DirectoriesAssumption
<1>2. Len(node) \in Nat
  BY NodeIs DEF Plain
<1>3. /\ Ranged(Split(node))
      /\ Len(Split(node)) = CeilDiv(Len(node), MaxEntries)
      /\ UNION {Entries(s.body) : s \in Entries(Split(node))} = Entries(node)
  BY <1>1, SplitRanged DEF Split
<1> DEFINE q == CeilDiv(Len(node), MaxEntries)
<1>4. /\ q \in Nat /\ Len(node) <= q * MaxEntries
      /\ q * MaxEntries < Len(node) + MaxEntries
  BY <1>1, <1>2, CeilDivIs
<1> HIDE DEF q
<1>5. q * MaxEntries \in Nat /\ MaxEntries * MaxEntries \in Nat
  BY <1>1, <1>4, Times
<1>6. ASSUME Len(node) <= MaxEntries * MaxEntries
      PROVE  q <= MaxEntries
  <2>1. q * MaxEntries < MaxEntries * MaxEntries + MaxEntries
    BY <1>1, <1>2, <1>4, <1>5, <1>6
  <2>2. (MaxEntries + 1) * MaxEntries = MaxEntries * MaxEntries + MaxEntries
    BY <1>1, Times
  <2>3. q < MaxEntries + 1
    BY <1>1, <1>4, <2>1, <2>2, Times
  <2> QED
    BY <1>1, <1>4, <2>3
<1>7. ASSUME q <= MaxEntries
      PROVE  Len(node) <= MaxEntries * MaxEntries
  <2>1. q * MaxEntries <= MaxEntries * MaxEntries
    BY <1>1, <1>4, <1>7, Times
  <2> QED
    BY <1>2, <1>4, <1>5, <2>1
<1>8. SoundDirectory(Split(node)) <=> q <= MaxEntries
  <2>1. SoundDirectory(Split(node)) => Len(Split(node)) <= MaxEntries
    BY DEF SoundDirectory, SoundNode
  <2> QED
    BY <1>3, <2>1, SoundIs DEF q
<1>9. Children(Split(node)) = Entries(node)
  BY <1>3, ExpandRanged
<1> QED
  BY <1>6, <1>7, <1>8, <1>9, SoundIs

-----------------------------------------------------------------------------
(* Rewriting some ranges.                                                  *)

LEMMA ShardIndexIs ==
    ASSUME NEW node, Ranged(node), node # <<>>, NEW n \in Nat
    PROVE  /\ ShardIndex(node, n) \in DOMAIN node
           /\ ShardIndex(node, n) = 1 \/ node[ShardIndex(node, n)].name <= n
           /\ \A j \in DOMAIN node : ShardIndex(node, n) < j => n < node[j].name
           /\ \A k : RangeOf(node, n, k) => ShardIndex(node, n) = k
<1>1. /\ Node(node)
      /\ \A s \in Entries(node) : s.kind = "shard"
  BY DEF Ranged
<1>2. /\ Len(node) \in Nat \ {0} /\ DOMAIN node = 1 .. Len(node)
      /\ \A i \in 1 .. Len(node) : node[i] \in Entries(node) /\ node[i].name \in Nat
  BY <1>1, NodeIs
<1> DEFINE shards == {i \in DOMAIN node : node[i].kind = "shard"}
           before == {i \in shards : node[i].name <= n}
           first == CHOOSE i \in shards : \A j \in shards : i <= j
           last == CHOOSE i \in before : \A j \in before : j <= i
<1>3. shards = 1 .. Len(node)
  BY <1>1, <1>2
<1>4. ShardIndex(node, n) = IF before = {} THEN first ELSE last
  BY DEF ShardIndex
<1>5. CASE before = {}
  <2>1. first = 1
    <3> HIDE DEF shards
    <3>1. 1 \in shards /\ \A j \in shards : 1 <= j
      BY <1>2, <1>3
    <3>2. \A i \in shards : (\A j \in shards : i <= j) => i = 1
      BY <1>2, <1>3
    <3> QED
      BY <3>1, <3>2
  <2>2. \A j \in DOMAIN node : n < node[j].name
    BY <1>2, <1>3, <1>5
  <2>3. \A k : ~ RangeOf(node, n, k)
    BY <1>2, <2>2 DEF RangeOf
  <2>4. ShardIndex(node, n) = 1
    BY <1>4, <1>5, <2>1
  <2> QED
    BY <1>2, <2>2, <2>3, <2>4
<1>6. CASE before # {}
  <2>1. last \in before /\ \A j \in before : j <= last
    <3>1. before \in SUBSET (1 .. Len(node))
      BY <1>3
    <3> HIDE DEF before
    <3>2. \E i \in before : \A j \in before : j <= i
      BY <1>2, <1>6, <3>1, GreatestOf
    <3> QED
      BY <3>2
  <2> HIDE DEF last
  <2>2. last \in DOMAIN node /\ node[last].name <= n
    BY <2>1
  <2>3. \A j \in DOMAIN node : last < j => n < node[j].name
    BY <1>2, <1>3, <2>1, <2>2
  <2>4. ASSUME NEW k, RangeOf(node, n, k)
        PROVE  last = k
    <3>1. k \in before
      BY <1>2, <1>3, <2>4 DEF RangeOf
    <3>2. last <= k /\ k <= last
      BY <2>1, <2>2, <2>4, <3>1 DEF RangeOf
    <3> QED
      BY <1>2, <2>2, <2>4, <3>2 DEF RangeOf
  <2>5. ShardIndex(node, n) = last
    BY <1>4, <1>6
  <2> QED
    BY <2>2, <2>3, <2>4, <2>5
<1> QED
  BY <1>5, <1>6

\* The children of a range are those whose names it is in charge of.
LEMMA InItsRange ==
    ASSUME NEW node, Ranged(node), NEW i \in DOMAIN node, NEW e \in Entries(node[i].body)
    PROVE  e \in Children(node) /\ e.name \in Nat /\ ShardIndex(node, e.name) = i
<1>1. /\ Node(node)
      /\ \A s \in Entries(node) : Plain(s.body) /\ \A d \in Entries(s.body) : d.name >= s.name
      /\ \A j, k \in DOMAIN node : j < k => Before(node[j], node[k])
  BY DEF Ranged, Body
<1>2. /\ Len(node) \in Nat /\ DOMAIN node = 1 .. Len(node)
      /\ node # <<>>
      /\ \A j \in 1 .. Len(node) : node[j] \in Entries(node) /\ node[j].name \in Nat
  BY <1>1, NodeIs
<1>3. e.name \in Nat /\ node[i].name <= e.name
  BY <1>1, <1>2 DEF Plain, Node
<1>4. ASSUME NEW j \in DOMAIN node, node[j].name <= e.name
      PROVE  j <= i
  <2>1. ASSUME i < j
        PROVE  FALSE
    <3>1. e.name < node[j].name
      BY <1>1, <2>1 DEF Before
    <3> QED
      BY <1>2, <1>3, <1>4, <3>1
  <2> QED
    BY <1>2, <2>1
<1>5. RangeOf(node, e.name, i)
  BY <1>3, <1>4 DEF RangeOf
<1>6. e \in Children(node)
  BY <1>2, ExpandRanged
<1> QED
  BY <1>2, <1>3, <1>5, <1>6, ShardIndexIs

\* shard_index in _splice_sharded_directory (core/services/tree.py:1127): the
\* writer rewrites the range that the readers look in.  A child is in the
\* range of its name and in no other, a lookup that enters a range enters
\* that one, and a name for which it enters none gets the first.
THEOREM WriterAndReadersAgree ==
    ASSUME NEW node, SoundDirectory(node), AnyShard(node), None \notin Entries(node),
           NEW n \in Nat
    PROVE  /\ ShardIndex(node, n) \in DOMAIN node
           /\ Descend(node, n) \in {None, node[ShardIndex(node, n)]}
           /\ Descend(node, n) = None => ShardIndex(node, n) = 1
           /\ \A i \in DOMAIN node : \A e \in Entries(node[i].body) :
                e.name = n => i = ShardIndex(node, n)
           /\ \A e \in Children(node) :
                e.name = n => e \in Entries(node[ShardIndex(node, n)].body)
<1>1. Ranged(node) /\ node # <<>>
  <2>1. Node(node) /\ \E s \in Entries(node) : s.kind = "shard"
    BY SoundIs DEF AnyShard, SoundDirectory
  <2>2. ~ Plain(node)
    BY <2>1 DEF Plain
  <2>3. node # <<>>
    BY <2>1, NodeIs
  <2> QED
    BY <2>2, <2>3, SoundIs
<1>2. /\ ShardIndex(node, n) \in DOMAIN node
      /\ ShardIndex(node, n) = 1 \/ node[ShardIndex(node, n)].name <= n
      /\ \A k : RangeOf(node, n, k) => ShardIndex(node, n) = k
  BY <1>1, ShardIndexIs
<1>3. /\ Node(node)
      /\ \A i \in DOMAIN node : node[i] \in Entries(node) /\ node[i].name \in Nat
  <2>1. Node(node)
    BY <1>1 DEF Ranged
  <2> QED
    BY <2>1, NodeIs
<1>4. /\ Descend(node, n) \in {None, node[ShardIndex(node, n)]}
      /\ Descend(node, n) = None => ShardIndex(node, n) = 1
  <2>1. CASE \E k : RangeOf(node, n, k)
    <3>1. PICK k : RangeOf(node, n, k)
      BY <2>1
    <3>2. Descend(node, n) = node[k] /\ ShardIndex(node, n) = k
      BY <1>1, <1>2, <3>1, DescendRanged
    <3> QED
      BY <1>2, <1>3, <3>2
  <2>2. CASE ~ \E k : RangeOf(node, n, k)
    <3>1. Descend(node, n) = None /\ \A i \in DOMAIN node : n < node[i].name
      BY <1>1, <2>2, DescendRanged
    <3>2. n < node[ShardIndex(node, n)].name /\ node[ShardIndex(node, n)].name \in Nat
      BY <1>2, <1>3, <3>1
    <3>3. ShardIndex(node, n) = 1
      BY <1>2, <3>2
    <3> QED
      BY <3>1, <3>3
  <2> QED
    BY <2>1, <2>2
<1>5. \A i \in DOMAIN node : \A e \in Entries(node[i].body) :
        e.name = n => i = ShardIndex(node, n)
  BY <1>1, InItsRange
<1>6. ASSUME NEW e \in Children(node), e.name = n
      PROVE  e \in Entries(node[ShardIndex(node, n)].body)
  <2>1. PICK s \in Entries(node) : e \in Entries(s.body)
    BY <1>1, ExpandRanged
  <2>2. PICK i \in DOMAIN node : s = node[i]
    BY <1>3, NodeIs
  <2> QED
    BY <1>5, <1>6, <2>1, <2>2
<1> QED
  BY <1>2, <1>4, <1>5, <1>6

\* What comes in the place of some ranges of a node: shards that stay within
\* the range they replace.
WithinRanges(node, parts) ==
    /\ DOMAIN parts \subseteq DOMAIN node
    /\ \A i \in DOMAIN parts :
         /\ Ranged(parts[i])
         /\ \A s \in Entries(parts[i]) :
              /\ i = 1 \/ s.name >= node[i].name
              /\ \A j \in DOMAIN node : i < j => Before(s, node[j])

\* Shards in order.
InRanges(S) == {pair \in S \X S : Before(pair[1], pair[2])}

\* A directory whose ranges are replaced one by one is again cut in ranges.
LEMMA Assemble ==
    ASSUME NEW node, Ranged(node), NEW parts, WithinRanges(node, parts)
    PROVE  /\ Ranged(ReplaceRanges(node, parts))
           /\ Entries(ReplaceRanges(node, parts)) =
                {node[i] : i \in DOMAIN node \ DOMAIN parts}
                \union UNION {Entries(parts[i]) : i \in DOMAIN parts}
<1> DEFINE seqs == [i \in DOMAIN node |-> IF i \in DOMAIN parts THEN parts[i] ELSE <<node[i]>>]
           S == UNION {Entries(seqs[i]) : i \in DOMAIN node}
           R == InRanges(S)
           sound(s) == /\ s.name \in Nat /\ s.kind = "shard" /\ Body(s.body)
                       /\ \A e \in Entries(s.body) : e.name \in Nat /\ e.name >= s.name
<1>1. ASSUME NEW x, Ranged(x)
      PROVE  /\ x \in Seq(Entries(x)) /\ \A s \in Entries(x) : sound(s)
             /\ \A i, j \in DOMAIN x : i < j => Before(x[i], x[j])
             /\ \A i \in DOMAIN x : x[i] \in Entries(x)
  <2>1. /\ Node(x)
        /\ \A s \in Entries(x) : /\ s.kind = "shard" /\ Body(s.body)
                                 /\ \A e \in Entries(s.body) : e.name >= s.name
        /\ \A i, j \in DOMAIN x : i < j => Before(x[i], x[j])
    BY <1>1 DEF Ranged
  <2>2. \A s \in Entries(x) : \A e \in Entries(s.body) : e.name \in Nat
    BY <2>1 DEF Body, Plain, Node
  <2>3. \A i \in DOMAIN x : x[i] \in Entries(x)
    BY <2>1, NodeIs
  <2> QED
    BY <2>1, <2>2, <2>3 DEF Node
<1>2. DOMAIN node = 1 .. Len(node) /\ Len(node) \in Nat
  <2>1. Node(node)
    BY DEF Ranged
  <2> QED
    BY <2>1, NodeIs
<1>3. /\ DOMAIN parts \subseteq DOMAIN node
      /\ \A i \in DOMAIN parts :
           /\ Ranged(parts[i])
           /\ \A s \in Entries(parts[i]) :
                /\ i = 1 \/ s.name >= node[i].name
                /\ \A j \in DOMAIN node : i < j => Before(s, node[j])
  BY DEF WithinRanges
<1>4. ReplaceRanges(node, parts) = FlattenSeq(seqs)
  BY DEF ReplaceRanges
<1>5. ASSUME NEW i \in DOMAIN node \ DOMAIN parts
      PROVE  seqs[i] = <<node[i]>> /\ Entries(seqs[i]) = {node[i]}
  <2>1. seqs[i] = <<node[i]>>
    OBVIOUS
  <2> HIDE DEF seqs
  <2> QED
    BY <2>1, SeqIs DEF Entries, ToSet
<1>6. ASSUME NEW i \in DOMAIN parts
      PROVE  seqs[i] = parts[i] /\ i \in DOMAIN node
  BY <1>3
<1> HIDE DEF seqs
<1>7. ASSUME NEW i \in DOMAIN node
      PROVE  /\ seqs[i] \in Seq(S)
             /\ Entries(seqs[i]) \subseteq S
             /\ \A s \in Entries(seqs[i]) :
                  /\ sound(s)
                  /\ i = 1 \/ s.name >= node[i].name
                  /\ \A j \in DOMAIN node : i < j => Before(s, node[j])
             /\ \A j, k \in DOMAIN seqs[i] : j < k => Before(seqs[i][j], seqs[i][k])
             /\ \A j \in DOMAIN seqs[i] : seqs[i][j] \in S
  <2> DEFINE E == Entries(seqs[i])
  <2>1. Entries(seqs[i]) \subseteq S
    OBVIOUS
  <2>2. CASE i \in DOMAIN parts
    <3>1. /\ seqs[i] = parts[i] /\ seqs[i] \in Seq(E) /\ \A s \in E : sound(s)
          /\ \A j, k \in DOMAIN seqs[i] : j < k => Before(seqs[i][j], seqs[i][k])
          /\ \A j \in DOMAIN seqs[i] : seqs[i][j] \in E
      BY <1>1, <1>3, <1>6, <2>2
    <3>2. \A s \in E : /\ i = 1 \/ s.name >= node[i].name
                       /\ \A j \in DOMAIN node : i < j => Before(s, node[j])
      BY <1>3, <2>2, <3>1
    <3> HIDE DEF E, S, sound
    <3>3. seqs[i] \in Seq(S)
      BY <2>1, <3>1, SeqMonotonic DEF E
    <3> QED
      BY <2>1, <3>1, <3>2, <3>3 DEF E
  <2>3. CASE i \notin DOMAIN parts
    <3>1. seqs[i] = <<node[i]>> /\ Entries(seqs[i]) = {node[i]} /\ node[i] \in S
      BY <1>5, <2>1, <2>3
    <3>2. sound(node[i])
      BY <1>1
    <3>3. node[i].name >= node[i].name
      BY <3>2
    <3>4. \A j \in DOMAIN node : i < j => Before(node[i], node[j])
      BY <1>1
    <3> HIDE DEF S, sound
    <3>5. /\ <<node[i]>> \in Seq(S) /\ DOMAIN <<node[i]>> = {1} /\ <<node[i]>>[1] = node[i]
      BY <3>1
    <3> QED
      BY <3>1, <3>2, <3>3, <3>4, <3>5
  <2> QED
    BY <2>2, <2>3
<1>8. seqs \in Seq(Seq(S)) /\ DOMAIN seqs = DOMAIN node
  <2> DEFINE T == Seq(S)
  <2>1. \A i \in 1 .. Len(node) : seqs[i] \in T
    BY <1>2, <1>7
  <2>2. DOMAIN seqs = DOMAIN node /\ seqs = [i \in 1 .. Len(node) |-> seqs[i]]
    BY <1>2 DEF seqs
  <2> HIDE DEF T
  <2>3. [i \in 1 .. Len(node) |-> seqs[i]] \in Seq(T)
    BY <1>2, <2>1, IsASeq
  <2> QED
    BY <2>2, <2>3 DEF T
<1>9. \A i \in DOMAIN seqs : SortedBy(R, seqs[i])
  <2> SUFFICES ASSUME NEW i \in DOMAIN node, NEW j \in DOMAIN seqs[i], NEW k \in DOMAIN seqs[i], j < k
               PROVE  <<seqs[i][j], seqs[i][k]>> \in R
    BY <1>8 DEF SortedBy
  <2>1. seqs[i][j] \in S /\ seqs[i][k] \in S /\ Before(seqs[i][j], seqs[i][k])
    BY <1>7
  <2> HIDE DEF S
  <2> QED
    BY <2>1 DEF InRanges
<1>10. ASSUME NEW i \in DOMAIN seqs, NEW j \in DOMAIN seqs, i < j,
              NEW x \in Entries(seqs[i]), NEW y \in Entries(seqs[j])
       PROVE  <<x, y>> \in R
  <2>1. /\ sound(x) /\ sound(y) /\ Before(x, node[j]) /\ x \in S /\ y \in S
        /\ j = 1 \/ y.name >= node[j].name
    BY <1>7, <1>8, <1>10
  <2>2. y.name >= node[j].name /\ node[j].name \in Nat
    <3>1. j # 1
      BY <1>2, <1>8, <1>10
    <3>2. sound(node[j])
      BY <1>1, <1>8
    <3> QED
      BY <2>1, <3>1, <3>2
  <2>3. Before(x, y)
    <3>1. x.name < y.name
      BY <2>1, <2>2 DEF Before
    <3>2. \A e \in Entries(x.body) : e.name < y.name
      BY <2>1, <2>2 DEF Before
    <3> QED
      BY <3>1, <3>2 DEF Before
  <2> HIDE DEF S
  <2> QED
    BY <2>1, <2>3 DEF InRanges
<1> DEFINE flat == FlattenSeq(seqs)
<1>11. flat \in Seq(S) /\ Entries(flat) = UNION {Entries(seqs[i]) : i \in DOMAIN seqs}
       /\ SortedBy(R, flat)
  <2> HIDE DEF S, R
  <2> QED
    BY <1>8, <1>9, <1>10, Flatten
<1> HIDE DEF flat
<1>12. Entries(flat) = S
  BY <1>8, <1>11
<1>13. \A s \in S : sound(s)
  BY <1>7
<1>14. Ranged(flat)
  <2>1. Node(flat)
    BY <1>11, <1>12, <1>13 DEF Node
  <2>2. \A i, j \in DOMAIN flat : i < j => Before(flat[i], flat[j])
    BY <1>11 DEF SortedBy, InRanges
  <2> HIDE DEF S
  <2> QED
    BY <1>12, <1>13, <2>1, <2>2 DEF Ranged
<1>15. S = {node[i] : i \in DOMAIN node \ DOMAIN parts}
           \union UNION {Entries(parts[i]) : i \in DOMAIN parts}
  <2>1. \A i \in DOMAIN node : Entries(seqs[i]) =
          IF i \in DOMAIN parts THEN Entries(parts[i]) ELSE {node[i]}
    BY <1>5, <1>6
  <2> QED
    BY <1>3, <2>1
<1> QED
  BY <1>4, <1>12, <1>14, <1>15 DEF flat

LEMMA NoShards == Ranged(<<>>) /\ Entries(<<>>) = {} /\ Len(<<>>) = 0
<1>1. Entries(<<>>) = {} /\ Len(<<>>) = 0 /\ DOMAIN <<>> = {}
  BY DEF Entries, ToSet
<1>2. Node(<<>>)
  BY <1>1 DEF Node
<1> QED
  BY <1>1, <1>2 DEF Ranged

LEMMA SplitEvenlyIs ==
    ASSUME NEW node, Plain(node)
    PROVE  /\ Ranged(SplitEvenly(node))
           /\ Children(SplitEvenly(node)) = Entries(node)
           /\ \A s \in Entries(SplitEvenly(node)) :
                \E e \in Entries(s.body) : e.name = s.name
<1>1. Len(node) \in Nat /\ (node = <<>> <=> Len(node) = 0)
  BY NodeIs DEF Plain
<1>2. CASE node = <<>>
  <2>1. SplitEvenly(node) = <<>>
    BY <1>2 DEF SplitEvenly
  <2>2. Children(<<>>) = {}
    BY NoShards, ExpandRanged
  <2> QED
    BY <1>2, <2>1, <2>2, NoShards
<1>3. CASE node # <<>>
  <2> DEFINE groups == CeilDiv(Len(node), MaxEntries)
             size == CeilDiv(Len(node), groups)
             shards == AsShards(Chunks(node, size))
  <2>1. SplitEvenly(node) = shards
    BY <1>3 DEF SplitEvenly
  <2>2. MaxEntries \in Nat \ {0} /\ Len(node) # 0
    BY <1>1, <1>3, DirectoriesAssumption
  <2>3. groups \in Nat /\ groups # 0 /\ Len(node) <= groups * MaxEntries
    BY <1>1, <2>2, CeilDivIs
  <2> HIDE DEF groups
  <2>4. /\ size \in Nat /\ size # 0 /\ size * groups < Len(node) + groups
        /\ size * groups \in Nat
    <3>1. size \in Nat /\ size * groups < Len(node) + groups /\ (size = 0 <=> Len(node) = 0)
      BY <1>1, <2>3, CeilDivIs
    <3> HIDE DEF size
    <3> QED
      BY <2>2, <2>3, <3>1, Times
  <2> HIDE DEF size
  <2>5. size <= MaxEntries
    <3>1. groups * MaxEntries = MaxEntries * groups
      BY <2>2, <2>3, SMT
    <3>2. (MaxEntries + 1) * groups = MaxEntries * groups + groups /\ MaxEntries * groups \in Nat
      BY <2>2, <2>3, Times
    <3>3. size * groups < (MaxEntries + 1) * groups
      BY <1>1, <2>3, <2>4, <3>1, <3>2
    <3>4. MaxEntries + 1 \in Nat
      BY <2>2
    <3>5. size < MaxEntries + 1
      BY <2>3, <2>4, <3>3, <3>4, Times
    <3> QED
      BY <2>2, <2>4, <3>5
  <2>6. size \in 1 .. MaxEntries
    BY <2>2, <2>4, <2>5
  <2>7. /\ Ranged(shards)
        /\ UNION {Entries(s.body) : s \in Entries(shards)} = Entries(node)
        /\ \A s \in Entries(shards) : \E e \in Entries(s.body) : e.name = s.name
    BY <2>6, SplitRanged
  <2>8. Children(shards) = Entries(node)
    BY <2>7, ExpandRanged
  <2> QED
    BY <2>1, <2>7, <2>8
<1> QED
  BY <1>2, <1>3

\* Shards named after children that range i is in charge of stay within it.
LEMMA StaysWithin ==
    ASSUME NEW node, Ranged(node), NEW i \in DOMAIN node, NEW part, Ranged(part),
           \A s \in Entries(part) :
             /\ \A e \in Entries(s.body) : ShardIndex(node, e.name) = i
             /\ \E e \in Entries(s.body) : e.name = s.name
    PROVE  \A s \in Entries(part) :
             /\ i = 1 \/ s.name >= node[i].name
             /\ \A j \in DOMAIN node : i < j => Before(s, node[j])
<1> SUFFICES ASSUME NEW s \in Entries(part)
             PROVE  /\ i = 1 \/ s.name >= node[i].name
                    /\ \A j \in DOMAIN node : i < j => Before(s, node[j])
  OBVIOUS
<1>1. Node(node) /\ Plain(s.body) /\ Node(part)
  BY DEF Ranged, Body
<1>2. node # <<>> /\ \A j \in DOMAIN node : node[j].name \in Nat
  BY <1>1, NodeIs
<1>3. s.name \in Nat /\ \A e \in Entries(s.body) : e.name \in Nat
  BY <1>1 DEF Plain, Node
<1>4. ASSUME NEW e \in Entries(s.body)
      PROVE  /\ i = 1 \/ node[i].name <= e.name
             /\ \A j \in DOMAIN node : i < j => e.name < node[j].name
  <2>1. ShardIndex(node, e.name) = i /\ e.name \in Nat
    BY <1>3
  <2> QED
    BY <1>2, <2>1, ShardIndexIs
<1>5. PICK e \in Entries(s.body) : e.name = s.name
  OBVIOUS
<1>6. i = 1 \/ s.name >= node[i].name
  BY <1>2, <1>3, <1>4, <1>5
<1>7. ASSUME NEW j \in DOMAIN node, i < j
      PROVE  Before(s, node[j])
  BY <1>4, <1>5, <1>7 DEF Before
<1> QED
  BY <1>6, <1>7

\* _splice_sharded_directory (core/services/tree.py:1107): "only the shards of
\* dir_path that a change touches" are rewritten.  If the rewritten bodies hold
\* what target has in their ranges, and the other ranges have nothing to
\* change, the directory becomes target as a whole, even where a range grew
\* past one node and was split, or was emptied; and unless the shards now
\* overflow a node, every reader understands the layout.
THEOREM SplicingRangesIsSplicing ==
    ASSUME NEW node, SoundDirectory(node), AnyShard(node),
           NEW target, \A e \in target : e.name \in Nat,
           NEW changed \in SUBSET DOMAIN node, NEW bodies,
           \A i \in changed :
             /\ Plain(bodies[i])
             /\ Entries(bodies[i]) = {e \in target : ShardIndex(node, e.name) = i},
           \A i \in DOMAIN node \ changed :
             Entries(node[i].body) = {e \in target : ShardIndex(node, e.name) = i}
    PROVE  LET kept == ReplaceRanges(node, [i \in changed |-> SplitEvenly(bodies[i])])
           IN  /\ Children(kept) = target
               /\ ValidNode(kept)
               /\ SoundDirectory(kept) <=> Len(kept) <= MaxEntries
<1> DEFINE parts == [i \in changed |-> SplitEvenly(bodies[i])]
           kept == ReplaceRanges(node, parts)
           part(i) == {e \in target : ShardIndex(node, e.name) = i}
<1>1. Ranged(node) /\ node # <<>>
  <2>1. Node(node) /\ \E s \in Entries(node) : s.kind = "shard"
    BY DEF AnyShard, SoundDirectory
  <2>2. ~ Plain(node)
    BY <2>1 DEF Plain
  <2> QED
    BY <2>1, <2>2, SoundIs, NoShards
<1>2. ASSUME NEW i \in changed
      PROVE  /\ parts[i] = SplitEvenly(bodies[i])
             /\ Ranged(parts[i]) /\ Children(parts[i]) = part(i)
             /\ \A s \in Entries(parts[i]) :
                  /\ \A e \in Entries(s.body) : ShardIndex(node, e.name) = i
                  /\ \E e \in Entries(s.body) : e.name = s.name
  <2>1. parts[i] = SplitEvenly(bodies[i])
    OBVIOUS
  <2>2. /\ Ranged(parts[i]) /\ Children(parts[i]) = part(i)
        /\ \A s \in Entries(parts[i]) : \E e \in Entries(s.body) : e.name = s.name
    BY <2>1, SplitEvenlyIs
  <2>3. \A s \in Entries(parts[i]) : Entries(s.body) \subseteq part(i)
    BY <2>2, ExpandRanged
  <2> HIDE DEF parts
  <2> QED
    BY <2>1, <2>2, <2>3
<1>3. WithinRanges(node, parts)
  <2>1. DOMAIN parts = changed
    OBVIOUS
  <2> HIDE DEF parts
  <2>2. ASSUME NEW i \in changed
        PROVE  \A s \in Entries(parts[i]) :
                 /\ i = 1 \/ s.name >= node[i].name
                 /\ \A j \in DOMAIN node : i < j => Before(s, node[j])
    <3>1. i \in DOMAIN node
      OBVIOUS
    <3> QED
      BY <1>1, <1>2, <3>1, StaysWithin
  <2> QED
    BY <1>2, <2>1, <2>2 DEF WithinRanges
<1>4. DOMAIN parts = changed
  OBVIOUS
<1> HIDE DEF parts
<1>5. /\ Ranged(kept)
      /\ Entries(kept) = {node[i] : i \in DOMAIN node \ changed}
                         \union UNION {Entries(parts[i]) : i \in changed}
  BY <1>1, <1>3, <1>4, Assemble
<1> HIDE DEF kept
<1>6. Children(kept) = UNION {part(i) : i \in DOMAIN node}
  <2>1. Children(kept) = UNION {Entries(s.body) : s \in Entries(kept)}
    BY <1>5, ExpandRanged
  <2>2. \A i \in changed : UNION {Entries(s.body) : s \in Entries(parts[i])} = part(i)
    BY <1>2, ExpandRanged
  <2>3. \A i \in DOMAIN node \ changed : Entries(node[i].body) = part(i)
    OBVIOUS
  <2> HIDE DEF part
  <2> QED
    BY <1>5, <2>1, <2>2, <2>3
<1>7. UNION {part(i) : i \in DOMAIN node} = target
  <2>1. \A e \in target : ShardIndex(node, e.name) \in DOMAIN node
    BY <1>1, ShardIndexIs
  <2> QED
    BY <2>1
<1>8. ValidNode(kept) /\ (SoundDirectory(kept) <=> Len(kept) <= MaxEntries)
  <2>1. Node(kept) /\ Ascending(kept)
    BY <1>5 DEF Ranged, Before, Ascending
  <2>2. SoundDirectory(kept) => Len(kept) <= MaxEntries
    BY DEF SoundDirectory, SoundNode
  <2> QED
    BY <1>5, <2>1, <2>2, AscendingIs, SoundIs
<1> QED
  BY <1>6, <1>7, <1>8 DEF kept, parts

\* Sequences of at most one element join into no more elements than they are.
LEMMA FlattenShort ==
    ASSUME NEW S, NEW seqs \in Seq(Seq(S)), \A i \in DOMAIN seqs : Len(seqs[i]) <= 1
    PROVE  Len(FlattenSeq(seqs)) <= Len(seqs)
<1>1. CASE seqs = <<>>
  <2>1. FlattenSeq(seqs) = <<>>
    BY <1>1 DEF FlattenSeq
  <2> QED
    BY <1>1, <2>1
<1>2. CASE seqs # <<>>
  <2> DEFINE n == Len(seqs)
  <2>1. n \in Nat \ {0} /\ DOMAIN seqs = 1 .. n
        /\ \A i \in 1 .. n : seqs[i] \in Seq(S)
    BY <1>2
  <2>7. \A i \in 1 .. n : Len(seqs[i]) \in Nat /\ Len(seqs[i]) <= 1
    BY <2>1
  <2>2. PICK f \in [1 .. n -> Seq(S)] : Joining(f, seqs) /\ FlattenSeq(seqs) = f[n]
    BY <1>2, FlattenIs
  <2>3. f[1] = seqs[1] /\ \A k \in 1 .. n - 1 : f[k + 1] = f[k] \o seqs[k + 1]
    BY <2>2 DEF Joining
  <2> DEFINE U == {k \in 1 .. n : Len(f[k]) <= k}
  <2> HIDE DEF n
  <2>4. 1 \in U
    <3>1. 1 \in 1 .. n /\ Len(f[1]) <= 1
      BY <2>1, <2>3, <2>7
    <3> QED
      BY <3>1
  <2>5. ASSUME NEW k \in 1 .. n - 1, k \in U
        PROVE  k + 1 \in U
    <3>1. k \in 1 .. n /\ k + 1 \in 1 .. n
      BY <2>1
    <3>2. f[k] \in Seq(S) /\ seqs[k + 1] \in Seq(S) /\ f[k + 1] = f[k] \o seqs[k + 1]
      BY <2>1, <2>2, <2>3, <3>1
    <3>3. Len(f[k + 1]) = Len(f[k]) + Len(seqs[k + 1])
      BY <3>2
    <3>4. Len(f[k]) <= k /\ Len(f[k]) \in Nat
      BY <2>5, <3>2
    <3>5. Len(seqs[k + 1]) <= 1 /\ Len(seqs[k + 1]) \in Nat
      BY <2>7, <3>1
    <3> QED
      BY <3>1, <3>3, <3>4, <3>5
  <2>6. n \in U
    <3> HIDE DEF U
    <3>1. \A k \in 1 .. n : k \in U
      BY <2>1, <2>4, <2>5, Climb
    <3> QED
      BY <2>1, <3>1
  <2> QED
    BY <2>2, <2>6 DEF n
<1> QED
  BY <1>1, <1>2

LEMMA ReplaceIs ==
    ASSUME NEW S, NEW node \in Seq(S), NEW parts,
           DOMAIN parts \subseteq DOMAIN node, \A i \in DOMAIN parts : parts[i] \in Seq(S)
    PROVE  /\ Entries(ReplaceRanges(node, parts)) =
                {node[i] : i \in DOMAIN node \ DOMAIN parts}
                \union UNION {Entries(parts[i]) : i \in DOMAIN parts}
           /\ (\A i \in DOMAIN parts : Len(parts[i]) <= 1) =>
                Len(ReplaceRanges(node, parts)) <= Len(node)
<1> DEFINE seqs == [i \in DOMAIN node |-> IF i \in DOMAIN parts THEN parts[i] ELSE <<node[i]>>]
           T == Seq(S)
<1>1. Len(node) \in Nat /\ DOMAIN node = 1 .. Len(node) /\ \A i \in 1 .. Len(node) : node[i] \in S
  OBVIOUS
<1>2. ReplaceRanges(node, parts) = FlattenSeq(seqs)
  BY DEF ReplaceRanges
<1>3. \A i \in DOMAIN node : seqs[i] = IF i \in DOMAIN parts THEN parts[i] ELSE <<node[i]>>
  OBVIOUS
<1>4. seqs = [i \in 1 .. Len(node) |-> seqs[i]] /\ DOMAIN seqs = DOMAIN node
  BY <1>1
<1> HIDE DEF seqs
<1>5. ASSUME NEW i \in DOMAIN node
      PROVE  /\ seqs[i] \in Seq(S)
             /\ Entries(seqs[i]) = IF i \in DOMAIN parts THEN Entries(parts[i]) ELSE {node[i]}
             /\ i \notin DOMAIN parts => Len(seqs[i]) <= 1
  <2>1. <<node[i]>> \in Seq(S) /\ Len(<<node[i]>>) = 1 /\ Entries(<<node[i]>>) = {node[i]}
    BY <1>1 DEF Entries, ToSet
  <2>2. CASE i \in DOMAIN parts
    BY <1>3, <2>2
  <2>3. CASE i \notin DOMAIN parts
    <3>1. seqs[i] = <<node[i]>>
      BY <1>3, <2>3
    <3> QED
      BY <2>1, <2>3, <3>1
  <2> QED
    BY <2>2, <2>3
<1>6. seqs \in Seq(Seq(S)) /\ Len(seqs) = Len(node)
  <2>1. \A i \in 1 .. Len(node) : seqs[i] \in T
    BY <1>1, <1>5
  <2> HIDE DEF T
  <2>2. [i \in 1 .. Len(node) |-> seqs[i]] \in Seq(T)
    BY <1>1, <2>1, IsASeq
  <2>3. seqs \in Seq(T)
    BY <1>4, <2>2
  <2>4. Len(seqs) = Len(node)
    BY <1>1, <1>4, <2>3
  <2> QED
    BY <2>3, <2>4 DEF T
<1>7. Entries(FlattenSeq(seqs)) = UNION {Entries(seqs[i]) : i \in DOMAIN node}
  BY <1>4, <1>6, Flatten
<1>8. UNION {Entries(seqs[i]) : i \in DOMAIN node} =
        {node[i] : i \in DOMAIN node \ DOMAIN parts}
        \union UNION {Entries(parts[i]) : i \in DOMAIN parts}
  BY <1>5
<1>9. ASSUME \A i \in DOMAIN parts : Len(parts[i]) <= 1
      PROVE  Len(FlattenSeq(seqs)) <= Len(node)
  <2>1. \A i \in DOMAIN seqs : Len(seqs[i]) <= 1
    BY <1>3, <1>4, <1>5, <1>9
  <2> QED
    BY <1>6, <2>1, FlattenShort
<1> QED
  BY <1>2, <1>7, <1>8, <1>9

LEMMA OneShard ==
    ASSUME NEW n \in Nat, NEW body, Body(body), \A e \in Entries(body) : e.name >= n
    PROVE  /\ Ranged(<<Shard(n, body)>>) /\ Len(<<Shard(n, body)>>) = 1
           /\ Entries(<<Shard(n, body)>>) = {Shard(n, body)}
           /\ Shard(n, body).name = n /\ Shard(n, body).body = body
<1> DEFINE s == Shard(n, body)
           one == <<s>>
<1>1. s.name = n /\ s.kind = "shard" /\ s.body = body
  BY DEF Shard
<1> HIDE DEF s
<1>2. one \in Seq({s}) /\ Len(one) = 1 /\ DOMAIN one = {1} /\ Entries(one) = {s}
  BY DEF Entries, ToSet
<1> HIDE DEF one
<1>3. Node(one)
  BY <1>1, <1>2 DEF Node
<1>4. Ranged(one)
  BY <1>1, <1>2, <1>3 DEF Ranged
<1> QED
  BY <1>1, <1>2, <1>4 DEF s, one

\* What a pass over the entries of a node leaves of each: nothing, or one
\* entry of the same name.
Pruned(node, each) ==
    /\ DOMAIN each = DOMAIN node
    /\ \A i \in DOMAIN node :
         \/ each[i] = <<>>
         \/ \E e : /\ each[i] = <<e>> /\ e.name = node[i].name
                   /\ e.kind # "shard" /\ (IsSubtree(e) => e.body # <<>>)

LEMMA PrunedIs ==
    ASSUME NEW node, Plain(node), NEW each, Pruned(node, each), each = [i \in DOMAIN node |-> each[i]]
    PROVE  /\ Plain(FlattenSeq(each))
           /\ Len(FlattenSeq(each)) <= Len(node)
           /\ Entries(FlattenSeq(each)) = UNION {Entries(each[i]) : i \in DOMAIN node}
           /\ \A e \in Entries(FlattenSeq(each)) : \E d \in Entries(node) : d.name = e.name
<1> DEFINE S == UNION {Entries(each[i]) : i \in DOMAIN node}
           T == Seq(S)
           R == NameOrder(S)
           flat == FlattenSeq(each)
<1>1. /\ Len(node) \in Nat /\ DOMAIN node = 1 .. Len(node)
      /\ \A i \in 1 .. Len(node) : node[i] \in Entries(node) /\ node[i].name \in Nat
      /\ Ascending(node)
  BY NodeIs DEF Plain
<1>2. DOMAIN each = DOMAIN node
  BY DEF Pruned
<1>3. ASSUME NEW i \in DOMAIN node
      PROVE  /\ each[i] \in Seq(S) /\ Len(each[i]) <= 1
             /\ \A j \in DOMAIN each[i] : each[i][j] \in S
             /\ \A e \in Entries(each[i]) : /\ e.name = node[i].name /\ e.kind # "shard"
                                            /\ IsSubtree(e) => e.body # <<>>
             /\ SortedBy(R, each[i])
  <2>1. CASE each[i] = <<>>
    <3>1. <<>> \in Seq(S) /\ Len(<<>>) = 0 /\ DOMAIN <<>> = {} /\ Entries(<<>>) = {}
      BY DEF Entries, ToSet
    <3> HIDE DEF S
    <3> QED
      BY <2>1, <3>1 DEF SortedBy
  <2>2. CASE each[i] # <<>>
    <3>1. PICK e : /\ each[i] = <<e>> /\ e.name = node[i].name
                   /\ e.kind # "shard" /\ (IsSubtree(e) => e.body # <<>>)
      BY <2>2 DEF Pruned
    <3>2. Entries(each[i]) = {e}
      BY <3>1 DEF Entries, ToSet
    <3>3. e \in S
      BY <3>2
    <3> HIDE DEF S
    <3>4. <<e>> \in Seq(S) /\ Len(<<e>>) = 1 /\ DOMAIN <<e>> = {1} /\ <<e>>[1] = e
      BY <3>3
    <3>5. each[i] \in Seq(S) /\ Len(each[i]) <= 1 /\ \A j \in DOMAIN each[i] : each[i][j] \in S
      BY <3>1, <3>3, <3>4
    <3>6. SortedBy(R, each[i])
      BY <3>1, <3>4 DEF SortedBy
    <3> QED
      BY <3>1, <3>2, <3>5, <3>6
  <2> QED
    BY <2>1, <2>2
<1>4. each \in Seq(Seq(S)) /\ Len(each) = Len(node)
  <2>1. \A i \in 1 .. Len(node) : each[i] \in T
    BY <1>1, <1>3
  <2> HIDE DEF T
  <2>2. [i \in 1 .. Len(node) |-> each[i]] \in Seq(T)
    BY <1>1, <2>1, IsASeq
  <2>3. each \in Seq(T)
    BY <1>1, <2>2
  <2>4. Len(each) = Len(node)
    BY <1>1, <1>2, <2>3
  <2> QED
    BY <2>3, <2>4 DEF T
<1>5. ASSUME NEW i \in DOMAIN each, NEW j \in DOMAIN each, i < j,
             NEW x \in Entries(each[i]), NEW y \in Entries(each[j])
      PROVE  <<x, y>> \in R
  <2>1. x \in S /\ y \in S
    BY <1>2
  <2>2. x.name < y.name
    <3>1. i \in DOMAIN node /\ j \in DOMAIN node
      BY <1>2
    <3>2. x.name = node[i].name /\ y.name = node[j].name
      BY <1>3, <3>1
    <3>3. node[i].name < node[j].name
      BY <1>1, <1>5, <3>1 DEF Ascending
    <3> QED
      BY <3>2, <3>3
  <2> HIDE DEF S
  <2> QED
    BY <2>1, <2>2 DEF NameOrder
<1>6. flat \in Seq(S) /\ Entries(flat) = S /\ SortedBy(R, flat)
  <2>1. \A i \in DOMAIN each : SortedBy(R, each[i])
    BY <1>2, <1>3
  <2>2. S = UNION {Entries(each[i]) : i \in DOMAIN each}
    BY <1>2
  <2> HIDE DEF S, R
  <2> QED
    BY <1>4, <1>5, <2>1, <2>2, Flatten
<1>7. Len(flat) <= Len(node)
  <2>1. \A i \in DOMAIN each : Len(each[i]) <= 1
    BY <1>2, <1>3
  <2> HIDE DEF S
  <2> QED
    BY <1>4, <2>1, FlattenShort
<1>8. \A e \in S : \E i \in DOMAIN node : /\ e.name = node[i].name /\ e.kind # "shard"
                                          /\ IsSubtree(e) => e.body # <<>>
  BY <1>3
<1>9. Ascending(flat)
  <2> HIDE DEF S
  <2> QED
    BY <1>6, NamesSorted
<1> HIDE DEF S, flat
<1>10. Node(flat)
  BY <1>1, <1>6, <1>8 DEF Node
<1>11. \A e \in Entries(flat) : e.kind # "shard" /\ (IsSubtree(e) => e.body # <<>>)
  BY <1>6, <1>8
<1>12. Plain(flat)
  BY <1>9, <1>10, <1>11 DEF Plain
<1>13. \A e \in Entries(flat) : \E d \in Entries(node) : d.name = e.name
  BY <1>1, <1>6, <1>8
<1> QED
  BY <1>6, <1>7, <1>12, <1>13 DEF S, flat

LEMMA ShardedIs ==
    ASSUME NEW node, SoundDirectory(node), AnyShard(node)
    PROVE  /\ Ranged(node) /\ node # <<>> /\ Len(node) <= MaxEntries
           /\ Node(node) /\ DOMAIN node = 1 .. Len(node) /\ Len(node) \in Nat
           /\ \A i \in DOMAIN node :
                /\ node[i] \in Entries(node) /\ node[i].name \in Nat
                /\ Plain(node[i].body) /\ SoundDirectory(node[i].body)
                /\ Len(node[i].body) <= MaxEntries
                /\ \A e \in Entries(node[i].body) :
                     e.name \in Nat /\ e.name >= node[i].name /\ ShardIndex(node, e.name) = i
<1>1. Node(node) /\ \E s \in Entries(node) : s.kind = "shard"
  BY DEF AnyShard, SoundDirectory
<1>2. ~ Plain(node)
  BY <1>1 DEF Plain
<1>3. Ranged(node) /\ node # <<>> /\ Len(node) <= MaxEntries
  BY <1>1, <1>2, SoundIs, NoShards
<1>4. /\ DOMAIN node = 1 .. Len(node) /\ Len(node) \in Nat
      /\ \A i \in DOMAIN node : node[i] \in Entries(node) /\ node[i].name \in Nat
  BY <1>1, NodeIs
<1>5. ASSUME NEW i \in DOMAIN node
      PROVE  /\ Plain(node[i].body) /\ Len(node[i].body) <= MaxEntries
             /\ \A e \in Entries(node[i].body) : e.name >= node[i].name
  BY <1>3, <1>4 DEF Ranged, Body
<1>6. ASSUME NEW i \in DOMAIN node
      PROVE  SoundDirectory(node[i].body)
  BY <1>5, SoundIs
<1>7. ASSUME NEW i \in DOMAIN node, NEW e \in Entries(node[i].body)
      PROVE  e.name \in Nat /\ ShardIndex(node, e.name) = i
  BY <1>3, InItsRange
<1> QED
  BY <1>1, <1>3, <1>4, <1>5, <1>6, <1>7

\* prune in _prune_tree (core/services/tree.py:555): "A shard only shrinks here,
\* so the rewritten body never needs splitting".  Whatever the pass over the
\* bodies of some shards drops or replaces, the directory keeps a layout that
\* every reader understands, and its children are those the pass has left.
THEOREM PruningNeedsNoSplit ==
    ASSUME NEW node, SoundDirectory(node), AnyShard(node),
           NEW touched \in SUBSET DOMAIN node, NEW each,
           \A i \in touched : /\ Pruned(node[i].body, each[i])
                              /\ each[i] = [j \in DOMAIN node[i].body |-> each[i][j]]
    PROVE  LET body(i) == FlattenSeq(each[i])
               kept == ReplaceRanges(node,
                         [i \in touched |-> IF body(i) = <<>> THEN <<>>
                                            ELSE <<AsShard(body(i))>>])
           IN  /\ SoundDirectory(kept)
               /\ Len(kept) <= Len(node)
               /\ Children(kept) =
                    (UNION {Entries(node[i].body) : i \in DOMAIN node \ touched})
                    \union UNION {Entries(body(i)) : i \in touched}
<1> DEFINE body(i) == FlattenSeq(each[i])
           parts == [i \in touched |-> IF body(i) = <<>> THEN <<>> ELSE <<AsShard(body(i))>>]
           kept == ReplaceRanges(node, parts)
<1>1. /\ Ranged(node) /\ Len(node) <= MaxEntries /\ Node(node) /\ Len(node) \in Nat
      /\ \A i \in DOMAIN node :
           /\ Plain(node[i].body) /\ Len(node[i].body) <= MaxEntries
           /\ Len(node[i].body) \in Nat
           /\ \A e \in Entries(node[i].body) : ShardIndex(node, e.name) = i
  <2>1. \A i \in DOMAIN node : Plain(node[i].body)
    BY ShardedIs
  <2>2. \A i \in DOMAIN node : Len(node[i].body) \in Nat
    BY <2>1, NodeIs DEF Plain
  <2> QED
    BY <2>2, ShardedIs
<1>2. DOMAIN parts = touched
  OBVIOUS
<1>3. ASSUME NEW i \in touched
      PROVE  /\ Plain(body(i)) /\ Len(body(i)) <= MaxEntries
             /\ \A e \in Entries(body(i)) : ShardIndex(node, e.name) = i
  <2>1. i \in DOMAIN node
    OBVIOUS
  <2>2. /\ Plain(body(i)) /\ Len(body(i)) <= Len(node[i].body)
        /\ \A e \in Entries(body(i)) : \E d \in Entries(node[i].body) : d.name = e.name
    BY <1>1, <2>1, PrunedIs
  <2>3. Len(body(i)) \in Nat
    BY <2>2, NodeIs DEF Plain
  <2> HIDE DEF body
  <2>4. Len(body(i)) <= MaxEntries
    BY <1>1, <2>1, <2>2, <2>3, DirectoriesAssumption
  <2> QED
    BY <1>1, <2>1, <2>2, <2>4
<1> HIDE DEF body
<1>4. ASSUME NEW i \in touched
      PROVE  /\ Ranged(parts[i]) /\ Len(parts[i]) <= 1
             /\ UNION {Entries(s.body) : s \in Entries(parts[i])} = Entries(body(i))
             /\ \A s \in Entries(parts[i]) :
                  /\ \A e \in Entries(s.body) : ShardIndex(node, e.name) = i
                  /\ \E e \in Entries(s.body) : e.name = s.name
  <2>1. CASE body(i) = <<>>
    <3>1. parts[i] = <<>>
      BY <2>1
    <3> HIDE DEF parts
    <3> QED
      BY <2>1, <3>1, NoShards
  <2>2. CASE body(i) # <<>>
    <3> DEFINE b == body(i)
               n == b[1].name
    <3>1. parts[i] = <<Shard(n, b)>>
      BY <2>2 DEF AsShard
    <3>2. Plain(b) /\ Len(b) \in Nat /\ DOMAIN b = 1 .. Len(b) /\ Len(b) # 0
          /\ Entries(b) = {b[j] : j \in 1 .. Len(b)}
          /\ \A j \in 1 .. Len(b) : b[j].name \in Nat
      BY <1>3, <2>2, NodeIs DEF Plain
    <3> HIDE DEF b, parts
    <3>3. 1 \in 1 .. Len(b) /\ b[1] \in Entries(b) /\ n \in Nat
      BY <3>2
    <3>4. ASSUME NEW j \in 1 .. Len(b)
          PROVE  b[j].name >= n
      <4>1. CASE j = 1
        BY <3>3, <4>1
      <4>2. CASE j # 1
        <5>1. b[1].name < b[j].name
          BY <3>2, <3>3, <4>2 DEF Plain, Ascending
        <5> QED
          BY <3>2, <3>3, <5>1
      <4> QED
        BY <4>1, <4>2
    <3>5. Body(b) /\ \A e \in Entries(b) : e.name >= n
      <4>1. Body(b)
        BY <1>3, <2>2 DEF Body, b
      <4> HIDE DEF n
      <4> QED
        BY <3>2, <3>4, <4>1
    <3>6. /\ Ranged(parts[i]) /\ Len(parts[i]) = 1
          /\ Entries(parts[i]) = {Shard(n, b)}
          /\ Shard(n, b).name = n /\ Shard(n, b).body = b
      <4> HIDE DEF n
      <4> QED
        BY <3>1, <3>3, <3>5, OneShard
    <3>7. \A e \in Entries(b) : ShardIndex(node, e.name) = i
      BY <1>3 DEF b
    <3> QED
      BY <3>3, <3>6, <3>7 DEF b
  <2> QED
    BY <2>1, <2>2
<1> HIDE DEF parts
<1>5. WithinRanges(node, parts)
  <2>1. ASSUME NEW i \in touched
        PROVE  \A s \in Entries(parts[i]) :
                 /\ i = 1 \/ s.name >= node[i].name
                 /\ \A j \in DOMAIN node : i < j => Before(s, node[j])
    <3>1. i \in DOMAIN node
      OBVIOUS
    <3> QED
      BY <1>1, <1>4, <3>1, StaysWithin
  <2> QED
    BY <1>2, <1>4, <2>1 DEF WithinRanges
<1>6. /\ Ranged(kept)
      /\ Entries(kept) = {node[i] : i \in DOMAIN node \ touched}
                         \union UNION {Entries(parts[i]) : i \in touched}
  BY <1>1, <1>2, <1>5, Assemble
<1>7. Len(kept) <= Len(node)
  <2> DEFINE S == Entries(node) \union UNION {Entries(parts[i]) : i \in touched}
  <2>1. ASSUME NEW i \in touched
        PROVE  parts[i] \in Seq(S)
    <3>1. parts[i] \in Seq(Entries(parts[i])) /\ Entries(parts[i]) \subseteq S
      BY <1>4 DEF Ranged, Node
    <3> HIDE DEF S
    <3> QED
      BY <3>1, SeqMonotonic
  <2>2. node \in Seq(S)
    <3>1. node \in Seq(Entries(node)) /\ Entries(node) \subseteq S
      BY <1>1 DEF Node
    <3> HIDE DEF S
    <3> QED
      BY <3>1, SeqMonotonic
  <2> HIDE DEF S
  <2>3. DOMAIN parts \subseteq DOMAIN node
    BY <1>2
  <2> QED
    BY <1>2, <1>4, <2>1, <2>2, <2>3, ReplaceIs
<1> HIDE DEF kept
<1>8. SoundDirectory(kept)
  <2>1. Len(kept) \in Nat
    BY <1>6, NodeIs DEF Ranged
  <2>2. Len(kept) <= MaxEntries
    BY <1>1, <1>7, <2>1, DirectoriesAssumption
  <2> QED
    BY <1>6, <2>2, SoundIs
<1>9. Children(kept) = (UNION {Entries(node[i].body) : i \in DOMAIN node \ touched})
                       \union UNION {Entries(body(i)) : i \in touched}
  <2>1. Children(kept) = UNION {Entries(s.body) : s \in Entries(kept)}
    BY <1>6, ExpandRanged
  <2>2. \A i \in touched : UNION {Entries(s.body) : s \in Entries(parts[i])} = Entries(body(i))
    BY <1>4
  <2> SUFFICES ASSUME NEW e
               PROVE  (\E s \in Entries(kept) : e \in Entries(s.body))
                      <=> \/ \E i \in DOMAIN node \ touched : e \in Entries(node[i].body)
                          \/ \E i \in touched : e \in Entries(body(i))
    BY <2>1
  <2>3. \A i \in touched :
          e \in Entries(body(i)) <=> \E s \in Entries(parts[i]) : e \in Entries(s.body)
    BY <2>2
  <2>4. \A s : s \in Entries(kept) <=> \/ \E i \in DOMAIN node \ touched : s = node[i]
                                      \/ \E i \in touched : s \in Entries(parts[i])
    BY <1>6
  <2> QED
    BY <2>3, <2>4
<1> QED
  BY <1>7, <1>8, <1>9 DEF kept, parts, body

\* The ranges of nodes with the same range names are in charge of the same names.
LEMMA SameIndex ==
    ASSUME NEW a, NEW b, SoundDirectory(a), SoundDirectory(b), AnyShard(a), AnyShard(b),
           SameRanges(a, b), NEW n \in Nat
    PROVE  ShardIndex(a, n) = ShardIndex(b, n) /\ DOMAIN a = DOMAIN b
<1>1. /\ Ranged(a) /\ Ranged(b)
      /\ DOMAIN a = 1 .. Len(a) /\ DOMAIN b = 1 .. Len(b)
      /\ \A i \in DOMAIN a : a[i] \in Entries(a)
      /\ \A i \in DOMAIN b : b[i] \in Entries(b)
  BY ShardedIs
<1>2. DOMAIN a = DOMAIN b /\ \A i \in DOMAIN a : a[i].name = b[i].name
  BY <1>1 DEF SameRanges
<1>3. \A i \in DOMAIN a : a[i].kind = "shard" /\ b[i].kind = "shard"
  BY <1>1, <1>2 DEF Ranged
<1> DEFINE shardsA == {i \in DOMAIN a : a[i].kind = "shard"}
           shardsB == {i \in DOMAIN b : b[i].kind = "shard"}
           beforeA == {i \in shardsA : a[i].name <= n}
           beforeB == {i \in shardsB : b[i].name <= n}
<1>4. shardsA = shardsB
  BY <1>2, <1>3
<1>5. beforeA = beforeB
  BY <1>2, <1>4
<1>6. ShardIndex(a, n) = IF beforeA = {} THEN CHOOSE i \in shardsA : \A j \in shardsA : i <= j
                         ELSE CHOOSE i \in beforeA : \A j \in beforeA : j <= i
  BY DEF ShardIndex
<1>7. ShardIndex(b, n) = IF beforeB = {} THEN CHOOSE i \in shardsB : \A j \in shardsB : i <= j
                         ELSE CHOOSE i \in beforeB : \A j \in beforeB : j <= i
  BY DEF ShardIndex
<1> HIDE DEF shardsA, shardsB, beforeA, beforeB
<1> QED
  BY <1>2, <1>4, <1>5, <1>6, <1>7

\* In a range, a name has the child it has in the directory or none.
LEMMA ChildOfRange ==
    ASSUME NEW node, SoundDirectory(node), AnyShard(node), NEW i \in DOMAIN node, NEW n \in Nat
    PROVE  ChildNamed(node[i].body, n) =
             IF ShardIndex(node, n) = i THEN ChildNamed(node, n) ELSE None
<1> DEFINE hits(x) == {e \in Children(x) : e.name = n}
<1>1. \A x : ChildNamed(x, n) = IF hits(x) = {} THEN None ELSE CHOOSE e \in hits(x) : TRUE
  BY DEF ChildNamed, Children
<1>2. /\ Ranged(node) /\ Plain(node[i].body)
      /\ \A e \in Entries(node[i].body) : ShardIndex(node, e.name) = i
  BY ShardedIs
<1>3. Children(node[i].body) = Entries(node[i].body)
  BY <1>2, ExpandPlain DEF Children
<1>4. CASE ShardIndex(node, n) = i
  <2>1. hits(node) = hits(node[i].body)
    <3>1. \A e \in Children(node) : e.name = n => e \in Entries(node[i].body)
      <4> SUFFICES ASSUME NEW e \in Children(node), e.name = n
                   PROVE  e \in Entries(node[i].body)
        OBVIOUS
      <4>1. PICK k : RangeOf(node, e.name, k) /\ e \in Entries(node[k].body)
        BY <1>2, ChildInRange
      <4>2. k \in DOMAIN node
        BY <4>1 DEF RangeOf
      <4>3. ShardIndex(node, e.name) = k
        BY <4>1, <4>2, ShardedIs
      <4> QED
        BY <1>4, <4>1, <4>3
    <3>2. \A e \in Entries(node[i].body) : e \in Children(node)
      BY <1>2, InItsRange
    <3> QED
      BY <1>3, <3>1, <3>2
  <2> DEFINE all == hits(node)
             own == hits(node[i].body)
  <2>2. /\ ChildNamed(node, n) = IF all = {} THEN None ELSE CHOOSE e \in all : TRUE
        /\ ChildNamed(node[i].body, n) = IF own = {} THEN None ELSE CHOOSE e \in own : TRUE
    BY <1>1
  <2>3. all = own
    BY <2>1
  <2> HIDE DEF all, own
  <2> QED
    BY <1>4, <2>2, <2>3
<1>5. CASE ShardIndex(node, n) # i
  <2>1. hits(node[i].body) = {}
    BY <1>2, <1>3, <1>5
  <2> HIDE DEF hits
  <2> QED
    BY <1>1, <1>5, <2>1
<1> QED
  BY <1>4, <1>5

\* _merge_sharded (core/services/tree.py:850): "all three sides ... sharded
\* with identical range names".  Each name is in charge of the same range on
\* the three sides, and there it has the child, or none, that it has in the
\* whole directory: merging range by range compares for every name the three
\* entries that merging the directory child by child would, once.
THEOREM AlignedRangesMergeAlike ==
    ASSUME NEW base, NEW ours, NEW theirs,
           \A node \in {base, ours, theirs} : SoundDirectory(node) /\ AnyShard(node),
           SameRanges(ours, theirs), SameRanges(base, theirs), NEW n \in Nat
    PROVE  \E k \in DOMAIN ours : \A node \in {base, ours, theirs} :
             /\ DOMAIN node = DOMAIN ours
             /\ ChildNamed(node[k].body, n) = ChildNamed(node, n)
             /\ \A i \in DOMAIN node \ {k} : ChildNamed(node[i].body, n) = None
<1> DEFINE k == ShardIndex(theirs, n)
<1>1. /\ SoundDirectory(base) /\ SoundDirectory(ours) /\ SoundDirectory(theirs)
      /\ AnyShard(base) /\ AnyShard(ours) /\ AnyShard(theirs)
  OBVIOUS
<1>2. \A node \in {base, ours, theirs} : ShardIndex(node, n) = k /\ DOMAIN node = DOMAIN theirs
  BY <1>1, SameIndex
<1>3. k \in DOMAIN theirs
  BY <1>1, ShardedIs, ShardIndexIs
<1> HIDE DEF k
<1>4. ASSUME NEW node \in {base, ours, theirs}
      PROVE  /\ ChildNamed(node[k].body, n) = ChildNamed(node, n)
             /\ \A i \in DOMAIN node \ {k} : ChildNamed(node[i].body, n) = None
  <2>1. SoundDirectory(node) /\ AnyShard(node) /\ ShardIndex(node, n) = k /\ k \in DOMAIN node
    BY <1>2, <1>3
  <2> QED
    BY <2>1, ChildOfRange
<1> QED
  BY <1>2, <1>3, <1>4

\* _merge_sharded (core/services/tree.py:895): a merged range keeps the name it
\* has on the three sides.  The shards hold what was merged, range by range;
\* the layout is one that every reader understands exactly if no merged range
\* has outgrown a node, for a merged range is not split into siblings.
THEOREM MergedRangesMustFit ==
    ASSUME NEW base, NEW ours, NEW theirs,
           \A node \in {base, ours, theirs} : SoundDirectory(node) /\ AnyShard(node),
           SameRanges(ours, theirs), SameRanges(base, theirs),
           NEW bodies,
           \A i \in DOMAIN ours :
             /\ Plain(bodies[i])
             /\ EntryNames(Entries(bodies[i])) \subseteq
                  UNION {EntryNames(Entries(node[i].body)) : node \in {base, ours, theirs}}
    PROVE  LET kept == ReplaceRanges(ours,
                         [i \in DOMAIN ours |-> IF bodies[i] = <<>> THEN <<>>
                                                ELSE <<Shard(ours[i].name, bodies[i])>>])
           IN  /\ SoundDirectory(kept) <=> \A i \in DOMAIN ours : Len(bodies[i]) <= MaxEntries
               /\ (\A i \in DOMAIN ours : Len(bodies[i]) <= MaxEntries) =>
                    Children(kept) = UNION {Entries(bodies[i]) : i \in DOMAIN ours}
<1> DEFINE parts == [i \in DOMAIN ours |-> IF bodies[i] = <<>> THEN <<>>
                                           ELSE <<Shard(ours[i].name, bodies[i])>>]
           kept == ReplaceRanges(ours, parts)
<1>1. /\ Ranged(ours) /\ Len(ours) <= MaxEntries /\ Node(ours) /\ Len(ours) \in Nat
      /\ \A i \in DOMAIN ours : ours[i].name \in Nat
  BY ShardedIs
<1>2. DOMAIN parts = DOMAIN ours
  OBVIOUS
<1>3. ASSUME NEW i \in DOMAIN ours, NEW e \in Entries(bodies[i])
      PROVE  e.name \in Nat /\ ShardIndex(ours, e.name) = i /\ e.name >= ours[i].name
  <2>1. PICK node \in {base, ours, theirs} : e.name \in EntryNames(Entries(node[i].body))
    BY DEF EntryNames
  <2>2. PICK d \in Entries(node[i].body) : d.name = e.name
    BY <2>1 DEF EntryNames
  <2>3. /\ SoundDirectory(base) /\ SoundDirectory(ours) /\ SoundDirectory(theirs)
        /\ AnyShard(base) /\ AnyShard(ours) /\ AnyShard(theirs)
    OBVIOUS
  <2>4. DOMAIN ours = DOMAIN theirs /\ DOMAIN base = DOMAIN theirs
    BY <2>3, SameIndex
  <2>5. i \in DOMAIN node /\ i \in DOMAIN theirs
    BY <2>4
  <2>6. d.name \in Nat /\ ShardIndex(node, d.name) = i /\ d.name >= node[i].name
    BY <2>5, ShardedIs
  <2>7. ShardIndex(ours, e.name) = i
    BY <2>2, <2>3, <2>6, SameIndex
  <2>8. node[i].name = ours[i].name
    BY <2>4, <2>5 DEF SameRanges
  <2> QED
    BY <2>2, <2>6, <2>7, <2>8
<1>4. ASSUME NEW i \in DOMAIN ours
      PROVE  /\ bodies[i] = <<>> => parts[i] = <<>>
             /\ bodies[i] # <<>> => parts[i] = <<Shard(ours[i].name, bodies[i])>>
  OBVIOUS
<1> HIDE DEF parts
<1>5. ASSUME NEW i \in DOMAIN ours, Len(bodies[i]) <= MaxEntries
      PROVE  /\ Ranged(parts[i])
             /\ UNION {Entries(s.body) : s \in Entries(parts[i])} = Entries(bodies[i])
             /\ \A s \in Entries(parts[i]) :
                  /\ s.name = ours[i].name
                  /\ s.body = bodies[i]
                  /\ \A e \in Entries(s.body) : ShardIndex(ours, e.name) = i
  <2>1. CASE bodies[i] = <<>>
    <3>1. parts[i] = <<>>
      BY <1>4, <2>1
    <3> QED
      BY <2>1, <3>1, NoShards
  <2>2. CASE bodies[i] # <<>>
    <3>1. Body(bodies[i]) /\ \A e \in Entries(bodies[i]) : e.name >= ours[i].name
      BY <1>3, <1>5, <2>2 DEF Body
    <3>2. /\ Ranged(parts[i])
          /\ Entries(parts[i]) = {Shard(ours[i].name, bodies[i])}
          /\ Shard(ours[i].name, bodies[i]).name = ours[i].name
          /\ Shard(ours[i].name, bodies[i]).body = bodies[i]
      <4> DEFINE n == ours[i].name
                 b == bodies[i]
      <4>1. /\ n \in Nat /\ Body(b) /\ parts[i] = <<Shard(n, b)>>
            /\ \A e \in Entries(b) : e.name >= n
        BY <1>1, <1>4, <2>2, <3>1
      <4> HIDE DEF n, b
      <4>2. /\ Ranged(parts[i]) /\ Entries(parts[i]) = {Shard(n, b)}
            /\ Shard(n, b).name = n /\ Shard(n, b).body = b
        BY <4>1, OneShard
      <4> QED
        BY <4>2 DEF n, b
    <3> QED
      BY <1>3, <3>2
  <2> QED
    BY <2>1, <2>2
<1>6. ASSUME NEW i \in DOMAIN ours, Len(bodies[i]) <= MaxEntries, NEW s \in Entries(parts[i]),
             NEW j \in DOMAIN ours, i < j
      PROVE  Before(s, ours[j])
  <2>1. s.name = ours[i].name /\ s.body = bodies[i]
    BY <1>5, <1>6
  <2>2. ours[i].name < ours[j].name
    BY <1>1, <1>6 DEF Ranged, Before
  <2>3. ASSUME NEW e \in Entries(bodies[i])
        PROVE  e.name < ours[j].name
    <3>1. e.name \in Nat /\ ShardIndex(ours, e.name) = i
      BY <1>3
    <3> QED
      BY <1>1, <1>6, <3>1, ShardedIs, ShardIndexIs
  <2> QED
    BY <2>1, <2>2, <2>3 DEF Before
<1> DEFINE fits == \A i \in DOMAIN ours : Len(bodies[i]) <= MaxEntries
<1>7. ASSUME fits
      PROVE  SoundDirectory(kept) /\ Children(kept) = UNION {Entries(bodies[i]) : i \in DOMAIN ours}
  <2>1. ASSUME NEW i \in DOMAIN ours, NEW s \in Entries(parts[i])
        PROVE  s.name >= ours[i].name
    BY <1>1, <1>5, <1>7
  <2>2. WithinRanges(ours, parts)
    BY <1>2, <1>5, <1>6, <1>7, <2>1 DEF WithinRanges
  <2>3. /\ Ranged(kept)
        /\ Entries(kept) = UNION {Entries(parts[i]) : i \in DOMAIN ours}
    BY <1>1, <1>2, <2>2, Assemble
  <2>4. Children(kept) = UNION {Entries(bodies[i]) : i \in DOMAIN ours}
    <3>1. Children(kept) = UNION {Entries(s.body) : s \in Entries(kept)}
      BY <2>3, ExpandRanged
    <3>2. \A i \in DOMAIN ours :
            UNION {Entries(s.body) : s \in Entries(parts[i])} = Entries(bodies[i])
      BY <1>5, <1>7
    <3> HIDE DEF kept
    <3> SUFFICES ASSUME NEW e
                 PROVE  (\E s \in Entries(kept) : e \in Entries(s.body))
                        <=> \E i \in DOMAIN ours : e \in Entries(bodies[i])
      BY <3>1
    <3>3. \A i \in DOMAIN ours :
            e \in Entries(bodies[i]) <=> \E s \in Entries(parts[i]) : e \in Entries(s.body)
      BY <3>2
    <3>4. \A s : s \in Entries(kept) <=> \E i \in DOMAIN ours : s \in Entries(parts[i])
      BY <2>3
    <3> QED
      BY <3>3, <3>4
  <2>5. Len(kept) <= Len(ours)
    <3> DEFINE S == Entries(ours) \union UNION {Entries(parts[i]) : i \in DOMAIN ours}
    <3>1. ASSUME NEW i \in DOMAIN ours
          PROVE  parts[i] \in Seq(S) /\ Len(parts[i]) <= 1
      <4>1. Ranged(parts[i])
        BY <1>5, <1>7
      <4>2. parts[i] \in Seq(Entries(parts[i])) /\ Entries(parts[i]) \subseteq S
        BY <4>1 DEF Ranged, Node
      <4> HIDE DEF S
      <4>3. parts[i] \in Seq(S)
        BY <4>2, SeqMonotonic
      <4>4. Len(<<>>) <= 1 /\ \A s : Len(<<s>>) <= 1
        OBVIOUS
      <4>5. parts[i] = <<>> \/ \E s : parts[i] = <<s>>
        BY <1>4
      <4> QED
        BY <4>3, <4>4, <4>5
    <3>2. ours \in Seq(S)
      <4>1. Entries(ours) \subseteq S
        OBVIOUS
      <4>2. ours \in Seq(Entries(ours))
        BY <1>1 DEF Node
      <4> HIDE DEF S
      <4> QED
        BY <4>1, <4>2, SeqMonotonic
    <3> HIDE DEF S
    <3> QED
      BY <1>2, <3>1, <3>2, ReplaceIs
  <2>6. Len(kept) \in Nat
    BY <2>3, NodeIs DEF Ranged
  <2> HIDE DEF kept
  <2>7. Len(kept) <= MaxEntries
    BY <1>1, <2>5, <2>6, DirectoriesAssumption
  <2> QED
    BY <2>3, <2>4, <2>7, SoundIs
<1>8. ASSUME SoundDirectory(kept)
      PROVE  fits
  <2> SUFFICES ASSUME NEW i \in DOMAIN ours
               PROVE  Len(bodies[i]) <= MaxEntries
    OBVIOUS
  <2>1. CASE bodies[i] = <<>>
    BY <2>1, DirectoriesAssumption, NoShards
  <2>2. CASE bodies[i] # <<>>
    <3> DEFINE s == Shard(ours[i].name, bodies[i])
               S == {Shard(ours[j].name, bodies[j]) : j \in DOMAIN ours} \union Entries(ours)
    <3>1. ASSUME NEW j \in DOMAIN ours
          PROVE  parts[j] \in Seq(S)
      <4>1. Shard(ours[j].name, bodies[j]) \in S
        OBVIOUS
      <4> HIDE DEF S
      <4>2. <<>> \in Seq(S) /\ \A t \in S : <<t>> \in Seq(S)
        OBVIOUS
      <4> QED
        BY <1>4, <4>1, <4>2
    <3>2. ours \in Seq(S)
      <4>1. Entries(ours) \subseteq S
        OBVIOUS
      <4>2. ours \in Seq(Entries(ours))
        BY <1>1 DEF Node
      <4> HIDE DEF S
      <4> QED
        BY <4>1, <4>2, SeqMonotonic
    <3> HIDE DEF S
    <3>3. Entries(kept) = UNION {Entries(parts[j]) : j \in DOMAIN ours}
      <4>1. Entries(kept) = {ours[j] : j \in DOMAIN ours \ DOMAIN parts}
                            \union UNION {Entries(parts[j]) : j \in DOMAIN parts}
        BY <1>2, <3>1, <3>2, ReplaceIs
      <4> QED
        BY <1>2, <4>1
    <3>4. Entries(parts[i]) = {s}
      <4>1. parts[i] = <<s>>
        BY <1>4, <2>2
      <4> HIDE DEF s
      <4> QED
        BY <4>1 DEF Entries, ToSet
    <3>5. s \in Entries(kept)
      BY <3>3, <3>4
    <3>6. s.kind = "shard" /\ s.body = bodies[i]
      BY DEF Shard
    <3> QED
      BY <1>8, <3>5, <3>6 DEF SoundDirectory, SoundNode
  <2> QED
    BY <2>1, <2>2
<1> QED
  BY <1>7, <1>8 DEF kept, parts

-----------------------------------------------------------------------------
(***************************************************************************)
(* The merge of two sets of files, path by path: what three_way_merge      *)
(* promises of the trees as a whole, and MergeIsSound compares it with.    *)
(***************************************************************************)
\* A function from paths to contents.
AreFiles(f) == f = [p \in DOMAIN f |-> f[p]] /\ \A p \in DOMAIN f : f[p] # None

\* What a merge leaves at each path.
MergesAt(base, ours, theirs) ==
    \A p : At(FlatMerge(base, ours, theirs), p) =
             IF At(ours, p) = At(base, p) THEN At(theirs, p) ELSE At(ours, p)

LEMMA MergedAt ==
    ASSUME NEW base, NEW ours, NEW theirs,
           AreFiles(base), AreFiles(ours), AreFiles(theirs)
    PROVE  MergesAt(base, ours, theirs)
<1> SUFFICES ASSUME NEW p
             PROVE  At(FlatMerge(base, ours, theirs), p) =
                      IF At(ours, p) = At(base, p) THEN At(theirs, p) ELSE At(ours, p)
  BY DEF MergesAt
<1> DEFINE merged(q) == IF At(ours, q) = At(base, q) THEN At(theirs, q) ELSE At(ours, q)
           all == Changed(base, ours) \union Changed(base, theirs) \union DOMAIN base
           D == {q \in all : merged(q) # None}
<1>1. FlatMerge(base, ours, theirs) = [q \in D |-> merged(q)]
  BY DEF FlatMerge
<1>2. p \notin all => merged(p) = None
  <2>1. SUFFICES ASSUME p \notin all
                 PROVE  merged(p) = None
    OBVIOUS
  <2>2. p \notin DOMAIN base /\ p \notin DOMAIN ours /\ p \notin DOMAIN theirs
    <3>1. p \notin DOMAIN base
      BY <2>1
    <3>2. At(base, p) = None
      BY <3>1 DEF At
    <3>3. p \notin DOMAIN ours
      BY <2>1, <3>2 DEF AreFiles, Changed, At
    <3>4. p \notin DOMAIN theirs
      BY <2>1, <3>2 DEF AreFiles, Changed, At
    <3> QED
      BY <3>1, <3>3, <3>4
  <2> QED
    BY <2>2 DEF At
<1> HIDE DEF merged, all
<1>3. CASE p \in D
  BY <1>1, <1>3 DEF At, merged
<1>4. CASE p \notin D
  <2>1. merged(p) = None
    BY <1>2, <1>4
  <2> QED
    BY <1>1, <1>4, <2>1 DEF At, merged
<1> QED
  BY <1>3, <1>4

\* A merge is a function to contents, which has no path but those that At
\* finds.
LEMMA MergedIsFiles ==
    ASSUME NEW base, NEW ours, NEW theirs,
           AreFiles(base), AreFiles(ours), AreFiles(theirs)
    PROVE  AreFiles(FlatMerge(base, ours, theirs))
<1> DEFINE merged(q) == IF At(ours, q) = At(base, q) THEN At(theirs, q) ELSE At(ours, q)
           all == Changed(base, ours) \union Changed(base, theirs) \union DOMAIN base
           D == {q \in all : merged(q) # None}
<1>1. FlatMerge(base, ours, theirs) = [q \in D |-> merged(q)]
  BY DEF FlatMerge
<1>2. \A q \in D : merged(q) # None
  OBVIOUS
<1> HIDE DEF merged, D
<1> QED
  BY <1>1, <1>2 DEF AreFiles

\* Sets of files are equal if they agree at every path.
LEMMA FilesEqual ==
    ASSUME NEW f, NEW g, AreFiles(f), AreFiles(g),
           \A p : At(f, p) = At(g, p)
    PROVE  f = g
<1>1. DOMAIN f = DOMAIN g
  BY DEF At, AreFiles
<1>2. \A p \in DOMAIN f : f[p] = g[p]
  BY <1>1 DEF At
<1> QED
  BY <1>1, <1>2 DEF AreFiles

\* three_way_merge (services/tree.py:740), "identical on both sides wins; a
\* side equal to the base yields to the other": a merge with no conflict has
\* every change of either side, as that side made it, and no other; it does
\* not matter which branch is merged into which; and where one side did
\* nothing it is the other side, the fast-forward.
THEOREM CleanMergesKeepBothSides ==
    ASSUME NEW base, NEW ours, NEW theirs,
           AreFiles(base), AreFiles(ours), AreFiles(theirs),
           FlatConflicts(base, ours, theirs) = {}
    PROVE  LET m == FlatMerge(base, ours, theirs)
           IN  /\ \A p \in Changed(base, ours) : At(m, p) = At(ours, p)
               /\ \A p \in Changed(base, theirs) : At(m, p) = At(theirs, p)
               /\ Changed(base, m) = Changed(base, ours) \union Changed(base, theirs)
               /\ m = FlatMerge(base, theirs, ours)
               /\ ours = base => m = theirs
               /\ theirs = base => m = ours
<1> DEFINE m == FlatMerge(base, ours, theirs)
           back == FlatMerge(base, theirs, ours)
<1>1. \A p : At(m, p) = IF At(ours, p) = At(base, p) THEN At(theirs, p) ELSE At(ours, p)
  BY MergedAt DEF MergesAt
<1>2. \A p : At(back, p) = IF At(theirs, p) = At(base, p) THEN At(ours, p) ELSE At(theirs, p)
  BY MergedAt DEF MergesAt
<1>3. AreFiles(m)
  BY MergedIsFiles
<1>4. AreFiles(back)
  BY MergedIsFiles
<1> HIDE DEF m, back
<1>5. ASSUME NEW f, NEW g, NEW p
      PROVE  p \in Changed(f, g) <=> At(f, p) # At(g, p)
  BY DEF Changed, At
<1>6. \A p : \/ At(ours, p) = At(base, p)
             \/ At(theirs, p) = At(base, p)
             \/ At(ours, p) = At(theirs, p)
  BY <1>5 DEF FlatConflicts
<1>7. \A p \in Changed(base, ours) : At(m, p) = At(ours, p)
  BY <1>1, <1>5
<1>8. \A p \in Changed(base, theirs) : At(m, p) = At(theirs, p)
  BY <1>1, <1>5, <1>6
<1>9. Changed(base, m) = Changed(base, ours) \union Changed(base, theirs)
  BY <1>1, <1>5, <1>6
<1>10. m = back
  <2>1. \A p : At(m, p) = At(back, p)
    BY <1>1, <1>2, <1>6
  <2> QED
    BY <1>3, <1>4, <2>1, FilesEqual
<1>11. ours = base => m = theirs
  <2>1. ours = base => \A p : At(m, p) = At(theirs, p)
    BY <1>1
  <2> QED
    BY <1>3, <2>1, FilesEqual
<1>12. theirs = base => m = ours
  <2>1. theirs = base => \A p : At(m, p) = At(ours, p)
    BY <1>1
  <2> QED
    BY <1>3, <2>1, FilesEqual
<1> QED
  BY <1>7, <1>8, <1>9, <1>10, <1>11, <1>12 DEF m, back
=============================================================================
