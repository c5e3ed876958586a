---------------------------- MODULE StagingProofs ----------------------------
(***************************************************************************)
(* Theorems of Staging, for any number of processes, every path, object,   *)
(* worktree and first commit, and any operations on them:                  *)
(*   TypeCorrect        the state is well typed,                           *)
(*   StagedWasAskedFor  the payload is what was staged and not committed,  *)
(*   ClashesCaught      what was accepted goes together,                   *)
(*   StatusForetells    status says what a full commit would change,       *)
(*   StagedMovesMove    mv --staged and commit do what mv does,            *)
(*   CommitsApplyToTheHead  a commit is its operation on the head as it is,*)
(*   MovesLoseNothing, PromotionKeepsBytes, RestoreFills                   *)
(*                      no file and no bytes get lost on the way.          *)
(*                                                                         *)
(* The parts: paths and their order; the sets of files that the operations *)
(* make, with TypeInv; the payload and those who have loaded it (StageInv);*)
(* what is about to be published (BuiltInv); the two forecasts, of status  *)
(* and of a move, which are facts about FlatCommit and FlatSplice; restore *)
(* (RestoreInv); and the additions that were accepted (ClashInv).          *)
(***************************************************************************)
EXTENDS Staging, SequenceTheorems, FiniteSetTheorems, WellFoundedInduction, TLAPS

-----------------------------------------------------------------------------
(* Paths.                                                                  *)

Path == Seq(Nat)

\* A path is within the paths whose names it begins with.
LEMMA WithinEach ==
    ASSUME NEW p \in Path, NEW q \in Path
    PROVE  Within(p, q) <=> /\ Len(q) <= Len(p)
                            /\ \A i \in 1 .. Len(q) : p[i] = q[i]
<1>1. CASE Len(q) <= Len(p)
  <2>1. /\ SubSeq(p, 1, Len(q)) \in Seq(Nat)
        /\ Len(SubSeq(p, 1, Len(q))) = Len(q)
        /\ \A i \in 1 .. Len(q) : SubSeq(p, 1, Len(q))[i] = p[i]
    BY <1>1 DEF Path
  <2>2. ASSUME \A i \in 1 .. Len(q) : p[i] = q[i]
        PROVE  SubSeq(p, 1, Len(q)) = q
    BY <2>1, <2>2 DEF Path
  <2> QED
    BY <1>1, <2>1, <2>2 DEF Within
<1> QED
  BY <1>1 DEF Within

LEMMA WithinItself ==
    ASSUME NEW p \in Path
    PROVE  Within(p, p)
BY WithinEach DEF Path

LEMMA WithinTrans ==
    ASSUME NEW p \in Path, NEW q \in Path, NEW r \in Path,
           Within(p, q), Within(q, r)
    PROVE  Within(p, r)
BY WithinEach DEF Path

\* Two paths within each other are one.
LEMMA WithinBoth ==
    ASSUME NEW p \in Path, NEW q \in Path, Within(p, q), Within(q, p)
    PROVE  p = q
BY WithinEach DEF Path

LEMMA DirType ==
    ASSUME NEW p \in Path, p # <<>>
    PROVE  /\ Dir(p) \in Path
           /\ Len(Dir(p)) = Len(p) - 1
           /\ \A i \in 1 .. Len(p) - 1 : Dir(p)[i] = p[i]
<1>1. Len(p) \in Nat /\ Len(p) # 0
  BY EmptySeq DEF Path
<1> DEFINE n == Len(p) - 1
<1>2. n \in Int /\ 1 \in Int /\ \A i \in 1 .. n : p[i] \in Nat /\ 1 + i - 1 = i
  BY <1>1 DEF Path
<1>3. /\ SubSeq(p, 1, n) \in Seq(Nat)
      /\ Len(SubSeq(p, 1, n)) = IF 1 <= n THEN n - 1 + 1 ELSE 0
      /\ \A i \in 1 .. n - 1 + 1 : SubSeq(p, 1, n)[i] = p[1 + i - 1]
  BY <1>2, SubSeqProperties
<1>4. n - 1 + 1 = n /\ (IF 1 <= n THEN n - 1 + 1 ELSE 0) = n
  BY <1>1
<1> HIDE DEF n
<1>5. /\ SubSeq(p, 1, n) \in Seq(Nat)
      /\ Len(SubSeq(p, 1, n)) = n
      /\ \A i \in 1 .. n : SubSeq(p, 1, n)[i] = p[i]
  BY <1>2, <1>3, <1>4
<1> QED
  BY <1>5 DEF Dir, Path, n

\* What is within a path and not the path has its directory there.
LEMMA DirWithin ==
    ASSUME NEW p \in Path, NEW q \in Path, p # <<>>, Within(p, q), p # q
    PROVE  Within(Dir(p), q)
<1>1. Len(q) <= Len(p) /\ \A i \in 1 .. Len(q) : p[i] = q[i]
  BY WithinEach
<1>2. Len(q) \in Nat /\ Len(p) \in Nat
  BY DEF Path
<1>3. Len(q) # Len(p)
  BY <1>1, SeqEqual DEF Path
<1>4. /\ Dir(p) \in Path
      /\ Len(Dir(p)) = Len(p) - 1
      /\ \A i \in 1 .. Len(p) - 1 : Dir(p)[i] = p[i]
  BY DirType
<1>5. Len(q) <= Len(p) - 1
  BY <1>1, <1>2, <1>3
<1> QED
  BY <1>1, <1>2, <1>4, <1>5, WithinEach

\* and a file of a directory within a path is within the path.
LEMMA WithinDir ==
    ASSUME NEW p \in Path, NEW q \in Path, p # <<>>, Within(Dir(p), q)
    PROVE  Within(p, q) /\ Len(q) < Len(p)
<1>1. /\ Dir(p) \in Path
      /\ Len(Dir(p)) = Len(p) - 1
      /\ \A i \in 1 .. Len(p) - 1 : Dir(p)[i] = p[i]
  BY DirType
<1>2. Len(q) <= Len(Dir(p)) /\ \A i \in 1 .. Len(q) : Dir(p)[i] = q[i]
  BY <1>1, WithinEach
<1>3. Len(q) \in Nat /\ Len(p) \in Nat
  BY DEF Path
<1> QED
  BY <1>1, <1>2, <1>3, WithinEach

\* A moved path has the destination and then what the path has after the source.
LEMMA MovedPathType ==
    ASSUME NEW p \in Path, NEW from \in Path, NEW to \in Path, Len(from) <= Len(p)
    PROVE  /\ MovedPath(p, from, to) \in Path
           /\ Len(MovedPath(p, from, to)) = Len(to) + (Len(p) - Len(from))
           /\ \A i \in 1 .. Len(to) : MovedPath(p, from, to)[i] = to[i]
           /\ \A i \in Len(from) + 1 .. Len(p) :
                 MovedPath(p, from, to)[Len(to) + (i - Len(from))] = p[i]
<1> DEFINE rest == SubSeq(p, Len(from) + 1, Len(p))
<1>1. /\ rest \in Seq(Nat)
      /\ Len(rest) = Len(p) - Len(from)
      /\ \A i \in 1 .. Len(p) - Len(from) : rest[i] = p[i + Len(from)]
  <2> DEFINE m == Len(from) + 1
             n == Len(p)
  <2>1. Len(from) \in Nat /\ Len(p) \in Nat
    BY DEF Path
  <2>2. m \in Int /\ n \in Int /\ \A i \in m .. n : p[i] \in Nat
    BY <2>1 DEF Path
  <2>3. /\ SubSeq(p, m, n) \in Seq(Nat)
        /\ Len(SubSeq(p, m, n)) = IF m <= n THEN n - m + 1 ELSE 0
        /\ \A i \in 1 .. n - m + 1 : SubSeq(p, m, n)[i] = p[m + i - 1]
    BY <2>2, SubSeqProperties
  <2>4. /\ n - m + 1 = Len(p) - Len(from)
        /\ (IF m <= n THEN n - m + 1 ELSE 0) = Len(p) - Len(from)
        /\ \A i \in 1 .. n - m + 1 : m + i - 1 = i + Len(from)
    BY <2>1
  <2> HIDE DEF m, n
  <2> QED
    BY <2>3, <2>4 DEF m, n
<1>2. MovedPath(p, from, to) = to \o rest
  BY DEF MovedPath
<1> HIDE DEF rest
<1>3. \A i \in Len(from) + 1 .. Len(p) : (to \o rest)[Len(to) + (i - Len(from))] = p[i]
  <2> TAKE i \in Len(from) + 1 .. Len(p)
  <2> DEFINE j == i - Len(from)
             k == Len(to) + j
  <2>1. /\ Len(from) \in Nat /\ Len(p) \in Nat /\ Len(to) \in Nat
        /\ i \in Int
    BY DEF Path
  <2>2. /\ j \in 1 .. Len(p) - Len(from) /\ j + Len(from) = i
        /\ k \in 1 .. Len(to) + Len(rest) /\ ~(k <= Len(to)) /\ k - Len(to) = j
    BY <1>1, <2>1
  <2> HIDE DEF j, k
  <2>3. rest[j] = p[i]
    BY <1>1, <2>2
  <2>4. (to \o rest)[k] = IF k <= Len(to) THEN to[k] ELSE rest[k - Len(to)]
    BY <1>1, <2>2, ConcatProperties DEF Path
  <2>5. (to \o rest)[k] = p[i]
    BY <2>2, <2>3, <2>4
  <2> QED
    BY <2>5 DEF j, k
<1> QED
  BY SMTT(30), <1>1, <1>2, <1>3 DEF Path

\* Moving keeps what is within what, both ways, so it keeps paths apart.
LEMMA MovedPathWithin ==
    ASSUME NEW p \in Path, NEW q \in Path, NEW from \in Path, NEW to \in Path,
           Within(p, from), Within(q, from),
           Within(MovedPath(p, from, to), MovedPath(q, from, to))
    PROVE  Within(p, q)
<1> DEFINE a == MovedPath(p, from, to)
           b == MovedPath(q, from, to)
<1>1. /\ Len(from) <= Len(p) /\ \A i \in 1 .. Len(from) : p[i] = from[i]
      /\ Len(from) <= Len(q) /\ \A i \in 1 .. Len(from) : q[i] = from[i]
  BY WithinEach
<1>2. /\ a \in Path /\ Len(a) = Len(to) + (Len(p) - Len(from))
      /\ \A i \in Len(from) + 1 .. Len(p) : a[Len(to) + (i - Len(from))] = p[i]
  BY <1>1, MovedPathType
<1>3. /\ b \in Path /\ Len(b) = Len(to) + (Len(q) - Len(from))
      /\ \A i \in Len(from) + 1 .. Len(q) : b[Len(to) + (i - Len(from))] = q[i]
  BY <1>1, MovedPathType
<1>4. Len(b) <= Len(a) /\ \A i \in 1 .. Len(b) : a[i] = b[i]
  BY <1>2, <1>3, WithinEach
<1> HIDE DEF a, b
<1>5. Len(p) \in Nat /\ Len(q) \in Nat /\ Len(from) \in Nat /\ Len(to) \in Nat
  BY DEF Path
<1>6. Len(q) <= Len(p)
  BY <1>2, <1>3, <1>4, <1>5
<1>7. ASSUME NEW i \in 1 .. Len(q)
      PROVE  p[i] = q[i]
  <2>1. CASE i <= Len(from)
    BY <1>1, <1>5, <2>1
  <2>2. CASE i > Len(from)
    <3>1. /\ i \in Len(from) + 1 .. Len(q)
          /\ i \in Len(from) + 1 .. Len(p)
          /\ Len(to) + (i - Len(from)) \in 1 .. Len(b)
      BY <1>3, <1>5, <1>6, <2>2
    <3> QED
      BY <1>2, <1>3, <1>4, <3>1
  <2> QED
    BY <1>5, <2>1, <2>2
<1> QED
  BY <1>6, <1>7, WithinEach

LEMMA MovedPathInjective ==
    ASSUME NEW p \in Path, NEW q \in Path, NEW from \in Path, NEW to \in Path,
           Within(p, from), Within(q, from),
           MovedPath(p, from, to) = MovedPath(q, from, to)
    PROVE  p = q
<1>1. MovedPath(p, from, to) \in Path
  BY MovedPathType, WithinEach
<1>2. Within(MovedPath(p, from, to), MovedPath(p, from, to))
  BY <1>1, WithinItself
<1>3. Within(p, q) /\ Within(q, p)
  BY <1>2, MovedPathWithin
<1> QED
  BY <1>3, WithinBoth
-----------------------------------------------------------------------------
(* Sets of files.                                                          *)

\* Sets of files over the paths of the instance.
FileSets == {f \in UNION {[S -> EntrySet] : S \in SUBSET Paths} : PrefixFree(DOMAIN f)}

LEMMA FileSetsAre ==
    ASSUME NEW f
    PROVE  f \in FileSets <=> IsFiles(f) /\ DOMAIN f \subseteq Paths
<1>1. ASSUME f \in FileSets
      PROVE  IsFiles(f) /\ DOMAIN f \subseteq Paths
  <2>1. PICK S \in SUBSET Paths : f \in [S -> EntrySet]
    BY <1>1 DEF FileSets
  <2> QED
    BY <1>1, <2>1 DEF FileSets, IsFiles
<1>2. ASSUME IsFiles(f), DOMAIN f \subseteq Paths
      PROVE  f \in FileSets
  BY <1>2 DEF FileSets, IsFiles
<1> QED
  BY <1>1, <1>2

LEMMA PathsAre ==
    \A p \in Paths : p \in Path /\ p # <<>>
BY StagingAssumption DEF Path

\* No part of a prefix-free set is less so.
LEMMA PrefixFreePart ==
    ASSUME NEW S, PrefixFree(S), NEW T \in SUBSET S
    PROVE  PrefixFree(T)
BY DEF PrefixFree

LEMMA NoFilesIs ==
    /\ DOMAIN NoFiles = {}
    /\ IsFiles(NoFiles)
BY DEF NoFiles, IsFiles, PrefixFree

LEMMA OnlyIs ==
    ASSUME NEW f, NEW S
    PROVE  DOMAIN Only(f, S) = S /\ \A p \in S : Only(f, S)[p] = f[p]
BY DEF Only

\* What a splice leaves of a set of files.
Spared(f, adds, removed) ==
    {p \in DOMAIN f : /\ ~PathIsRemoved(p, removed)
                      /\ ~ \E q \in DOMAIN adds : Within(p, q) \/ Within(q, p)}

LEMMA SpliceIs ==
    ASSUME NEW f, NEW adds, NEW removed
    PROVE  /\ DOMAIN FlatSplice(f, adds, removed) = DOMAIN adds \union Spared(f, adds, removed)
           /\ \A p \in DOMAIN adds : FlatSplice(f, adds, removed)[p] = adds[p]
           /\ \A p \in Spared(f, adds, removed) \ DOMAIN adds :
                 FlatSplice(f, adds, removed)[p] = f[p]
<1> DEFINE gone == {p \in DOMAIN f : \/ PathIsRemoved(p, removed)
                                     \/ \E q \in DOMAIN adds : Within(p, q) \/ Within(q, p)}
           rest == Without(f, gone)
<1>1. DOMAIN rest = Spared(f, adds, removed) /\ \A p \in DOMAIN rest : rest[p] = f[p]
  BY DEF Without, Only, Spared
<1>2. FlatSplice(f, adds, removed) = Over(adds, rest)
  BY DEF FlatSplice
<1> HIDE DEF gone, rest
<1>3. Over(adds, rest) = [p \in DOMAIN adds \union DOMAIN rest |->
                         IF p \in DOMAIN adds THEN adds[p] ELSE rest[p]]
  BY DEF Over
<1> QED
  BY <1>1, <1>2, <1>3

LEMMA SpliceIsFunction ==
    ASSUME NEW f, NEW adds, NEW removed
    PROVE  FlatSplice(f, adds, removed)
             = [p \in DOMAIN FlatSplice(f, adds, removed) |-> FlatSplice(f, adds, removed)[p]]
BY DEF FlatSplice, Over

\* A splice of sets of files is one.
LEMMA SpliceFiles ==
    ASSUME NEW f \in FileSets, NEW adds \in FileSets, NEW removed
    PROVE  FlatSplice(f, adds, removed) \in FileSets
<1> DEFINE g == FlatSplice(f, adds, removed)
           left == Spared(f, adds, removed)
<1>1. /\ DOMAIN f \subseteq Paths /\ PrefixFree(DOMAIN f) /\ \A p \in DOMAIN f : f[p] \in EntrySet
      /\ DOMAIN adds \subseteq Paths /\ PrefixFree(DOMAIN adds)
      /\ \A p \in DOMAIN adds : adds[p] \in EntrySet
  BY FileSetsAre DEF IsFiles
<1>2. /\ left \subseteq DOMAIN f
      /\ \A p \in left, q \in DOMAIN adds : ~Within(p, q) /\ ~Within(q, p)
  BY DEF Spared
<1>3. /\ DOMAIN g = DOMAIN adds \union left
      /\ \A p \in DOMAIN adds : g[p] = adds[p]
      /\ \A p \in left \ DOMAIN adds : g[p] = f[p]
  BY ZenonT(60), SpliceIs
<1>4. g = [p \in DOMAIN g |-> g[p]]
  BY SpliceIsFunction
<1> HIDE DEF g, left
<1>5. PrefixFree(DOMAIN g)
  BY <1>1, <1>2, <1>3 DEF PrefixFree
<1>6. \A p \in DOMAIN g : g[p] \in EntrySet
  BY <1>1, <1>2, <1>3
<1>7. g \in [DOMAIN g -> EntrySet]
  BY <1>6, <1>4
<1>8. g \in FileSets
  BY <1>1, <1>2, <1>3, <1>5, <1>7, FileSetsAre DEF IsFiles
<1> QED
  BY <1>8 DEF g

LEMMA OnlyFiles ==
    ASSUME NEW f \in FileSets, NEW S \in SUBSET DOMAIN f
    PROVE  Only(f, S) \in FileSets
<1>1. DOMAIN Only(f, S) = S /\ \A p \in S : Only(f, S)[p] = f[p]
  BY OnlyIs
<1>2. /\ \A p \in S : f[p] \in EntrySet
      /\ PrefixFree(S) /\ S \subseteq Paths
  BY FileSetsAre, PrefixFreePart DEF IsFiles
<1>3. Only(f, S) \in [S -> EntrySet]
  BY <1>2 DEF Only
<1> QED
  BY <1>1, <1>2, <1>3, FileSetsAre DEF IsFiles

\* The additions a worktree does not leave for last clash neither with its
\* files nor with each other.
LEMMA EarlyAdds ==
    ASSUME NEW kept \in SUBSET Paths, NEW adds \in SUBSET Paths, PrefixFree(kept)
    PROVE  PrefixFree(kept \union {p \in adds \ LateAdds(kept, adds) :
                                     ~ \E q \in kept : Within(q, p)})
<1> DEFINE early == {p \in adds \ LateAdds(kept, adds) : ~ \E q \in kept : Within(q, p)}
<1>1. \A p \in kept \union early : p \in Path /\ p # <<>>
  BY PathsAre
<1>2. \A p \in early : /\ p \in adds
                       /\ ~ \E q \in kept : Within(q, p)
                       /\ Dir(p) = <<>> \/ \E q \in kept : Within(Dir(q), Dir(p))
  BY DEF LateAdds
<1> HIDE DEF early
\* in the directory of such an addition there is a file of the worktree
<1>3. ASSUME NEW p \in early, NEW q \in kept \union early, Within(p, q), p # q
      PROVE  FALSE
  <2>1. Dir(p) \in Path /\ Len(Dir(p)) = Len(p) - 1 /\ Within(Dir(p), q)
    BY <1>1, <1>3, DirType, DirWithin
  <2>2. Len(q) \in Nat /\ Len(q) # 0 /\ Len(q) <= Len(Dir(p))
    <3>1. Len(q) \in Nat \ {0}
      BY <1>1, EmptySeq DEF Path
    <3> QED
      BY <1>1, <2>1, <3>1, WithinEach
  <2>3. Dir(p) # <<>>
    BY <2>1, <2>2
  <2>4. PICK r \in kept : Within(Dir(r), Dir(p))
    BY <1>2, <1>3, <2>3
  <2>5. Within(r, Dir(p)) /\ Len(Dir(p)) < Len(r)
    BY <1>1, <2>1, <2>4, WithinDir
  <2>6. Within(r, q)
    BY <1>1, <1>3, <2>1, <2>5, WithinTrans
  <2>7. Len(r) \in Nat /\ Len(Dir(p)) \in Nat
    BY <1>1, <2>1 DEF Path
  <2>8. r # q
    BY <2>2, <2>5, <2>7
  <2>9. q \in kept
    BY <1>2, <1>3, <2>6
  <2> QED
    BY <2>6, <2>8, <2>9 DEF PrefixFree
<1>4. ASSUME NEW p \in kept, NEW q \in kept \union early, Within(p, q)
      PROVE  p = q
  BY <1>2, <1>4 DEF PrefixFree
<1>5. PrefixFree(kept \union early)
  BY <1>3, <1>4 DEF PrefixFree
<1> QED
  BY <1>5 DEF early

\* The staged additions of a commit need not be a set of files.
Additions(adds) == adds \in [DOMAIN adds -> EntrySet] /\ DOMAIN adds \subseteq Paths

\* A full commit whose late additions do not clash is a set of files.
LEMMA CommitFiles ==
    ASSUME NEW f \in FileSets, NEW worktree \in FileSets, NEW adds, NEW removed,
           Additions(adds),
           PrefixFree(LateAdds({p \in DOMAIN worktree : ~PathIsRemoved(p, removed)}, DOMAIN adds))
    PROVE  FlatCommit(f, worktree, adds, removed) \in FileSets
<1> DEFINE gone(g) == {p \in DOMAIN g : PathIsRemoved(p, removed)}
           kept == Without(worktree, gone(worktree))
           late == LateAdds(DOMAIN kept, DOMAIN adds)
           early == {p \in DOMAIN adds \ late : ~ \E q \in DOMAIN kept : Within(q, p)}
           built == FlatSplice(f, Over(kept, Only(adds, early)), {})
           left == Without(built, gone(built))
<1>1. /\ DOMAIN kept = {p \in DOMAIN worktree : ~PathIsRemoved(p, removed)}
      /\ kept \in FileSets
  <2>1. DOMAIN worktree \ gone(worktree) \subseteq DOMAIN worktree
    OBVIOUS
  <2>2. kept = Only(worktree, DOMAIN worktree \ gone(worktree))
    BY DEF Without
  <2> HIDE DEF kept
  <2>3. kept \in FileSets
    BY <2>1, <2>2, OnlyFiles
  <2>4. DOMAIN kept = DOMAIN worktree \ gone(worktree)
    BY <2>2, OnlyIs
  <2> QED
    BY <2>3, <2>4
<1>2. FlatCommit(f, worktree, adds, removed) = FlatSplice(left, Only(adds, late), {})
  BY DEF FlatCommit
<1> HIDE DEF kept
<1>3. late \subseteq DOMAIN adds /\ early \subseteq DOMAIN adds
  BY DEF LateAdds
<1>4. PrefixFree(late)
  BY <1>1
<1>5. Only(adds, late) \in FileSets
  <2>1. DOMAIN Only(adds, late) = late /\ Only(adds, late) \in [late -> EntrySet]
    BY <1>3 DEF Only, Additions
  <2> HIDE DEF late
  <2> QED
    BY <1>3, <1>4, <2>1, FileSetsAre DEF IsFiles, Additions
<1>6. Over(kept, Only(adds, early)) \in FileSets
  <2>1. PrefixFree(DOMAIN kept \union early)
    <3>1. DOMAIN kept \subseteq Paths /\ PrefixFree(DOMAIN kept)
      BY <1>1, FileSetsAre DEF IsFiles
    <3> QED
      BY <3>1, EarlyAdds DEF Additions
  <2> HIDE DEF early
  <2>2. /\ DOMAIN kept \subseteq Paths /\ early \subseteq Paths
        /\ \A p \in DOMAIN kept : kept[p] \in EntrySet
        /\ \A p \in early : adds[p] \in EntrySet
    BY <1>1, <1>3, FileSetsAre DEF IsFiles, Additions
  <2>3. Over(kept, Only(adds, early)) \in [DOMAIN kept \union early -> EntrySet]
    BY <2>2 DEF Over, Only
  <2>4. DOMAIN Over(kept, Only(adds, early)) = DOMAIN kept \union early
    BY DEF Over, Only
  <2> QED
    BY <2>1, <2>2, <2>3, <2>4, FileSetsAre DEF IsFiles
<1> HIDE DEF late, early
<1>7. built \in FileSets
  BY <1>6, SpliceFiles
<1> HIDE DEF built
<1>8. left \in FileSets
  <2>1. left = Only(built, DOMAIN built \ gone(built))
    BY DEF Without
  <2>2. DOMAIN built \ gone(built) \subseteq DOMAIN built
    OBVIOUS
  <2> HIDE DEF left
  <2> QED
    BY <1>7, <2>1, <2>2, OnlyFiles
<1> HIDE DEF left
<1> QED
  BY <1>2, <1>5, <1>8, SpliceFiles
-----------------------------------------------------------------------------
(* Entries and changes.                                                    *)

Disks == [Sources -> Contents \union {None}]

\* Staged changes, and entries, for paths of the instance.
Changes == UNION {[S -> ChangeSet] : S \in SUBSET Paths}
EntryMaps == UNION {[S -> EntrySet] : S \in SUBSET Paths}

Modes == {"content", "pointer"}

LEMMA ChangesAre ==
    ASSUME NEW f
    PROVE  f \in Changes <=> f \in [DOMAIN f -> ChangeSet] /\ DOMAIN f \subseteq Paths
<1>1. ASSUME f \in Changes
      PROVE  f \in [DOMAIN f -> ChangeSet] /\ DOMAIN f \subseteq Paths
  <2>1. PICK S \in SUBSET Paths : f \in [S -> ChangeSet]
    BY <1>1 DEF Changes
  <2> QED
    BY <2>1
<1> QED
  BY <1>1 DEF Changes

LEMMA EntryMapsAre ==
    ASSUME NEW f
    PROVE  f \in EntryMaps <=> Additions(f)
<1>1. ASSUME f \in EntryMaps
      PROVE  Additions(f)
  <2>1. PICK S \in SUBSET Paths : f \in [S -> EntrySet]
    BY <1>1 DEF EntryMaps
  <2> QED
    BY <2>1 DEF Additions
<1> QED
  BY <1>1 DEF EntryMaps, Additions

LEMMA FilesAreEntries ==
    ASSUME NEW f
    PROVE  f \in FileSets <=> f \in EntryMaps /\ PrefixFree(DOMAIN f)
BY FileSetsAre, EntryMapsAre DEF IsFiles, Additions

LEMMA EntryKinds ==
    ASSUME NEW e \in EntrySet
    PROVE  /\ e # None
           /\ e.mode \in Modes
           /\ e.mode = "content" => e.hash \in Contents /\ e = Blob(e.hash)
           /\ e.mode = "pointer" => /\ e.source \in Sources /\ e.tag \in Contents
                                    /\ e = Pointer(e.source, e.tag)
<1>1. CASE \E c \in Contents : e = Blob(c)
  BY <1>1, StagingAssumption DEF Blob, Modes
<1>2. CASE \E s \in Sources, c \in Contents : e = Pointer(s, c)
  BY <1>2, StagingAssumption DEF Pointer, Modes
<1> QED
  BY <1>1, <1>2 DEF EntrySet

LEMMA ChangeKinds ==
    ASSUME NEW ch \in ChangeSet, ch.action = "add"
    PROVE  /\ ch.mode \in Modes
           /\ ch.source \in Sources \union {None}
           /\ ch.source = None => ch.mode = "content" /\ ch.hash \in Contents
<1>1. CASE ch = Remove
  BY <1>1 DEF Remove
<1>2. CASE \E s \in Sources, m \in Modes : ch = Add(s, m)
  BY <1>2, StagingAssumption DEF Add
<1>3. CASE \E e \in EntrySet : ch = AddMoved(e)
  <2>1. PICK e \in EntrySet : ch = AddMoved(e)
    BY <1>3
  <2>2. CASE e.mode = "pointer"
    BY <2>1, <2>2, EntryKinds, StagingAssumption DEF AddMoved, Add, Modes
  <2>3. CASE e.mode = "content"
    BY <2>1, <2>3, EntryKinds, StagingAssumption DEF AddMoved, Modes
  <2> QED
    BY <2>2, <2>3, EntryKinds DEF Modes
<1> QED
  BY <1>1, <1>2, <1>3 DEF ChangeSet, Modes

LEMMA WorktreeIs ==
    /\ DOMAIN Worktree = {p \in Paths : disk[p] # None}
    /\ \A p \in DOMAIN Worktree : Worktree[p] = disk[p]
BY DEF Worktree, Only

LEMMA EntryFromSourceType ==
    ASSUME disk \in Disks, NEW s \in Sources, NEW mode \in Modes, disk[s] # None
    PROVE  EntryFromSource(s, mode) \in EntrySet
<1>1. disk[s] \in Contents
  BY DEF Disks
<1> QED
  BY <1>1 DEF EntryFromSource, EntrySet

\* A staged addition is described, or raises.
LEMMA EntryFromChangeType ==
    ASSUME disk \in Disks, NEW p \in Paths, NEW ch \in ChangeSet, ch.action = "add"
    PROVE  EntryFromChange(p, ch) \in EntrySet \union {None}
<1>1. p \in Sources
  BY DEF Sources
<1>2. CASE ch.source # None
  <2>1. ch.source \in Sources /\ ch.mode \in Modes
    BY <1>2, ChangeKinds
  <2> QED
    BY <1>2, <2>1, EntryFromSourceType DEF EntryFromChange
<1>3. CASE ch.source = None
  <2>1. ch.mode \in Modes /\ ch.hash \in Contents
    BY <1>3, ChangeKinds
  <2>2. Blob(ch.hash) \in EntrySet
    BY <2>1 DEF EntrySet
  <2> QED
    BY <1>1, <1>3, <2>1, <2>2, EntryFromSourceType DEF EntryFromChange
<1> QED
  BY <1>2, <1>3

LEMMA EntriesType ==
    ASSUME disk \in Disks, NEW changes \in Changes,
           ~ \E q \in DOMAIN Entries(changes) : Entries(changes)[q] = None
    PROVE  Entries(changes) \in EntryMaps
<1>1. /\ DOMAIN Entries(changes) = AddsOf(changes)
      /\ \A p \in AddsOf(changes) : Entries(changes)[p] = EntryFromChange(p, changes[p])
      /\ Entries(changes) = [p \in AddsOf(changes) |-> Entries(changes)[p]]
  BY DEF Entries
<1>2. \A p \in AddsOf(changes) :
          p \in Paths /\ changes[p] \in ChangeSet /\ changes[p].action = "add"
  BY ChangesAre DEF AddsOf
<1>3. \A p \in AddsOf(changes) : Entries(changes)[p] \in EntrySet
  BY <1>1, <1>2, EntryFromChangeType
<1> QED
  BY <1>1, <1>2, <1>3, EntryMapsAre DEF Additions

LEMMA NoChangesIs ==
    /\ NoFiles \in Changes /\ NoFiles \in EntryMaps /\ NoFiles \in FileSets
    /\ Entries(NoFiles) = NoFiles
    /\ AddsOf(NoFiles) = {} /\ RemovesOf(NoFiles) = {}
<1>1. AddsOf(NoFiles) = {} /\ RemovesOf(NoFiles) = {}
  BY DEF AddsOf, RemovesOf, NoFiles
<1>2. Entries(NoFiles) = NoFiles
  BY <1>1 DEF Entries, NoFiles
<1>3. NoFiles \in Changes
  BY ChangesAre DEF NoFiles
<1> QED
  BY <1>1, <1>2, <1>3, NoFilesIs, FileSetsAre, FilesAreEntries

\* Staged changes over staged changes are staged changes.
LEMMA OverChanges ==
    ASSUME NEW f \in Changes, NEW g \in Changes
    PROVE  Over(f, g) \in Changes
<1>1. /\ \A p \in DOMAIN f : f[p] \in ChangeSet /\ p \in Paths
      /\ \A p \in DOMAIN g : g[p] \in ChangeSet /\ p \in Paths
  BY ChangesAre
<1>2. Over(f, g) \in [DOMAIN f \union DOMAIN g -> ChangeSet]
  BY <1>1 DEF Over
<1> QED
  BY <1>1, <1>2, ChangesAre
-----------------------------------------------------------------------------
(* What the operations make of the files of a commit.                      *)

LEMMA ProcOps ==
    ASSUME NEW p \in Procs, NEW op \in Ops[p]
    PROVE  op \in OpSet /\ StaysInPaths(op)
BY StagingAssumption

\* What each operation names.
LEMMA OpKinds ==
    ASSUME NEW op \in OpSet
    PROVE  /\ op.kind \in {"add", "mv", "rm", "restore", "commit", "import",
                           "move", "remove", "promote"}
           /\ op.kind \in {"add", "mv", "move"} => op.to \in Paths /\ op.to \in Path
           /\ op.kind = "add" => op.from \in Paths \union {None} /\ op.mode \in Modes
           /\ op.kind \in {"mv", "move"} => op.from \in Paths /\ op.from # None
           /\ op.kind \in {"rm", "remove"} => op.path \in Paths
           /\ op.kind = "import" => op.mode \in Modes
<1>1. \A q \in Paths : q # None /\ q \in Path
  BY StagingAssumption DEF Sources, Path
<1>2. CASE op \in [kind : {"add"}, from : Paths \union {None}, to : Paths, mode : Modes]
  BY <1>1, <1>2
<1>3. CASE op \in [kind : {"mv", "move"}, from : Paths, to : Paths]
  BY <1>1, <1>3
<1>4. CASE op \in [kind : {"rm", "remove"}, path : Paths]
  BY <1>4
<1>5. CASE op \in [kind : {"restore"}, path : Paths \union {<<>>}, force : BOOLEAN]
  BY <1>5
<1>6. CASE op \in [kind : {"commit"}, staged : BOOLEAN]
  BY <1>6
<1>7. CASE op \in [kind : {"import"}, mode : Modes]
  BY <1>7
<1>8. CASE op \in [kind : {"promote"}]
  BY <1>8
<1> QED
  BY <1>2, <1>3, <1>4, <1>5, <1>6, <1>7, <1>8 DEF OpSet, Modes

LEMMA WorkEntriesType ==
    ASSUME disk \in Disks, PrefixFree(DOMAIN Worktree)
    PROVE  WorkEntries \in FileSets
<1>1. \A p \in DOMAIN Worktree : p \in Paths /\ Blob(Worktree[p]) \in EntrySet
  BY WorktreeIs DEF Disks, Sources, EntrySet
<1>2. \A p \in DOMAIN Worktree : Blob(disk[p]) \in EntrySet
  BY <1>1, WorktreeIs
<1>3. /\ DOMAIN WorkEntries = DOMAIN Worktree
      /\ WorkEntries \in [DOMAIN Worktree -> EntrySet]
  BY <1>2 DEF WorkEntries
<1> QED
  BY <1>1, <1>3, FileSetsAre DEF IsFiles

\* Of a set of pairs each path has a source among those paired with it.
LEMMA SourceOfIs ==
    ASSUME NEW pairs, NEW p \in PathsOf(pairs)
    PROVE  \E pair \in pairs : pair[1] = p /\ SourceOf(pairs, p) = pair[2]
<1>1. \E pair \in pairs : pair[1] = p
  BY DEF PathsOf
<1> QED
  BY <1>1 DEF SourceOf

LEMMA ListedIs ==
    ASSUME NEW to, NEW pair \in Listed(to)
    PROVE  \E o \in Objects : /\ disk[o] # None
                              /\ pair[1] = to \o Key[o] /\ pair[2] = o
BY DEF Listed

LEMMA ImportedType ==
    ASSUME disk \in Disks, NEW op \in OpSet, op.kind = "import",
           PrefixFree(DOMAIN Imported(op))
    PROVE  Imported(op) \in FileSets
<1> DEFINE pairs == Listed(<<>>)
<1>1. ASSUME NEW p \in PathsOf(pairs)
      PROVE  p \in Paths /\ EntryFromSource(SourceOf(pairs, p), op.mode) \in EntrySet
  <2>1. PICK o \in Objects : disk[o] # None /\ p = <<>> \o Key[o] /\ SourceOf(pairs, p) = o
    <3>1. PICK pair \in pairs : pair[1] = p /\ SourceOf(pairs, p) = pair[2]
      BY SourceOfIs
    <3>2. \E o \in Objects : disk[o] # None /\ pair[1] = <<>> \o Key[o] /\ pair[2] = o
      BY ListedIs
    <3> QED
      BY <3>1, <3>2
  <2>2. Key[o] \in Paths /\ Key[o] \in Path
    BY StagingAssumption, PathsAre
  <2>3. <<>> \o Key[o] = Key[o]
    BY <2>2, ConcatEmptySeq DEF Path
  <2> QED
    BY <2>1, <2>2, <2>3, OpKinds, EntryFromSourceType DEF Sources
<1>2. /\ DOMAIN Imported(op) = PathsOf(pairs)
      /\ Imported(op) = [p \in PathsOf(pairs) |-> EntryFromSource(SourceOf(pairs, p), op.mode)]
  BY DEF Imported
<1> HIDE DEF pairs
<1>3. Imported(op) \in [PathsOf(pairs) -> EntrySet]
  BY <1>1, <1>2
<1> QED
  BY <1>1, <1>2, <1>3, FileSetsAre DEF IsFiles

\* A move takes each file to its new path.
LEMMA MovedIs ==
    ASSUME NEW files \in FileSets, NEW from \in Path, NEW to \in Path
    PROVE  LET sources == {p \in DOMAIN files : Within(p, from)}
           IN  /\ DOMAIN Moved(files, from, to) = {MovedPath(p, from, to) : p \in sources}
               /\ \A p \in sources : Moved(files, from, to)[MovedPath(p, from, to)] = files[p]
<1> DEFINE sources == {p \in DOMAIN files : Within(p, from)}
           new(p) == MovedPath(p, from, to)
<1>1. \A p \in sources : p \in Path
  BY FileSetsAre, PathsAre
<1>2. Moved(files, from, to) = [q \in {new(p) : p \in sources} |->
                                  files[CHOOSE p \in sources : new(p) = q]]
  BY DEF Moved
<1>3. ASSUME NEW p \in sources
      PROVE  Moved(files, from, to)[new(p)] = files[p]
  <2>1. \A q \in sources : new(q) = new(p) => q = p
    BY <1>1, MovedPathInjective
  <2>2. (CHOOSE q \in sources : new(q) = new(p)) = p
    BY <2>1
  <2> QED
    BY <1>2, <2>2
<1> QED
  BY <1>2, <1>3

LEMMA MovedType ==
    ASSUME NEW files \in FileSets, NEW op \in OpSet, op.kind = "move", StaysInPaths(op)
    PROVE  Moved(files, op.from, op.to) \in FileSets
<1> DEFINE sources == {p \in DOMAIN files : Within(p, op.from)}
           new(p) == MovedPath(p, op.from, op.to)
           moves == Moved(files, op.from, op.to)
<1>1. op.from \in Path /\ op.to \in Path /\ op.from # None
  BY OpKinds, PathsAre
<1>2. \A p \in sources : /\ p \in Paths /\ p \in Path /\ files[p] \in EntrySet
                         /\ new(p) \in Paths
  BY <1>1, FileSetsAre, PathsAre DEF IsFiles, StaysInPaths
<1>3. /\ DOMAIN moves = {new(p) : p \in sources}
      /\ \A p \in sources : moves[new(p)] = files[p]
  BY <1>1, MovedIs
<1>4. PrefixFree({new(p) : p \in sources})
  <2>1. ASSUME NEW p \in sources, NEW q \in sources, Within(new(p), new(q))
        PROVE  new(p) = new(q)
    <3>1. Within(p, q)
      BY <1>1, <1>2, <2>1, MovedPathWithin
    <3>2. p = q
      BY <3>1, FileSetsAre DEF IsFiles, PrefixFree
    <3> QED
      BY <3>2
  <2> QED
    BY <2>1 DEF PrefixFree
<1>5. moves = [q \in DOMAIN moves |-> moves[q]]
  BY DEF Moved
<1> HIDE DEF moves, new
<1>6. moves \in [DOMAIN moves -> EntrySet] /\ DOMAIN moves \subseteq Paths
  BY <1>2, <1>3, <1>5
<1>7. moves \in FileSets
  BY <1>3, <1>4, <1>6, FileSetsAre DEF IsFiles
<1> QED
  BY <1>7 DEF moves

LEMMA PromotedType ==
    ASSUME disk \in Disks, NEW files \in FileSets,
           ~ \E p \in Pointers(files) : disk[files[p].source] = None
    PROVE  Promoted(files) \in FileSets
<1>1. \A p \in Pointers(files) :
          p \in DOMAIN files /\ files[p].source \in Sources /\ disk[files[p].source] # None
  BY FileSetsAre, EntryKinds DEF IsFiles, Pointers
<1>2. \A p \in Pointers(files) : Blob(disk[files[p].source]) \in EntrySet
  BY <1>1 DEF Disks, EntrySet
<1>3. Promoted(files) \in [Pointers(files) -> EntrySet] /\ DOMAIN Promoted(files) = Pointers(files)
  BY <1>2 DEF Promoted
<1>4. Pointers(files) \subseteq DOMAIN files
  BY DEF Pointers
<1>5. PrefixFree(Pointers(files)) /\ Pointers(files) \subseteq Paths
  BY <1>4, FileSetsAre, PrefixFreePart DEF IsFiles
<1> QED
  BY <1>3, <1>5, FileSetsAre DEF IsFiles
\* What an operation that does not raise makes of a set of files is one.
LEMMA ResultType ==
    ASSUME disk \in Disks, PrefixFree(DOMAIN Worktree),
           NEW op \in OpSet, StaysInPaths(op),
           op.kind \in {"commit", "import", "move", "remove", "promote"},
           NEW files \in FileSets, NEW entries \in EntryMaps, NEW removed,
           ~Raises(op, files, entries, removed)
    PROVE  Result(op, files, entries, removed) \in FileSets
<1>1. CASE op.kind = "commit"
  <2>1. ~Clash(op, entries, removed)
    BY <1>1 DEF Raises
  <2>2. CASE op.staged
    <3>1. PrefixFree(DOMAIN entries)
      BY <2>1, <2>2 DEF Clash
    <3>2. Result(op, files, entries, removed) = FlatSplice(files, entries, removed)
      BY <1>1, <2>2 DEF Result
    <3> QED
      BY <3>1, <3>2, FilesAreEntries, SpliceFiles
  <2>3. CASE ~op.staged
    <3>1. PrefixFree(LateAdds({p \in DOMAIN Worktree : ~PathIsRemoved(p, removed)},
                              DOMAIN entries))
      BY <2>1, <2>3 DEF Clash
    <3>2. DOMAIN WorkEntries = DOMAIN Worktree /\ WorkEntries \in FileSets
      BY WorkEntriesType DEF WorkEntries
    <3>3. FlatCommit(files, WorkEntries, entries, removed) \in FileSets
      BY <3>1, <3>2, CommitFiles, EntryMapsAre
    <3> QED
      BY <1>1, <2>3, <3>3 DEF Result
  <2> QED
    BY <2>2, <2>3
<1>2. CASE op.kind = "import"
  <2>1. Imported(op) \in FileSets
    BY <1>2, ImportedType DEF Raises
  <2> QED
    BY <1>2, <2>1, SpliceFiles DEF Result
<1>3. CASE op.kind = "move"
  BY <1>3, MovedType, SpliceFiles DEF Result
<1>4. CASE op.kind = "remove"
  BY <1>4, NoChangesIs, SpliceFiles DEF Result
<1>5. CASE op.kind = "promote"
  <2>1. Promoted(files) \in FileSets
    BY <1>5, PromotedType DEF Raises
  <2> QED
    BY <1>5, <2>1, SpliceFiles DEF Result
<1> QED
  BY <1>1, <1>2, <1>3, <1>4, <1>5

-----------------------------------------------------------------------------
(* What add, rm and mv stage.                                              *)

LEMMA AddChangesType ==
    ASSUME NEW op \in OpSet, op.kind = "add", StaysInPaths(op)
    PROVE  AddChanges(op) \in Changes
<1> DEFINE pairs == Expand(op)
<1>1. op.to \in Path /\ op.from \in Paths \union {None} /\ op.mode \in Modes
  BY OpKinds
<1>2. ASSUME NEW pair \in pairs
      PROVE  pair[1] \in Paths /\ pair[2] \in Sources
  <2>1. CASE op.from = None
    <3>1. \A o \in Objects : op.to \o Key[o] \in Paths
      BY <2>1 DEF StaysInPaths
    <3>2. pair \in Listed(op.to)
      BY <1>2, <2>1 DEF Expand
    <3> QED
      BY <3>1, <3>2, ListedIs DEF Sources
  <2>2. CASE op.from # None
    <3>1. pair \in {<<MovedPath(p, op.from, op.to), p>> :
                      p \in {q \in DOMAIN Worktree : Within(q, op.from)}}
      BY <1>2, <2>2 DEF Expand
    <3>2. PICK p \in DOMAIN Worktree : /\ Within(p, op.from)
                                       /\ pair[1] = MovedPath(p, op.from, op.to)
                                       /\ pair[2] = p
      BY <3>1
    <3>3. p \in Paths
      BY WorktreeIs
    <3> QED
      BY <2>2, <3>2, <3>3 DEF StaysInPaths, Sources
  <2> QED
    BY <2>1, <2>2
<1>3. ASSUME NEW p \in PathsOf(pairs)
      PROVE  p \in Paths /\ Add(SourceOf(pairs, p), op.mode) \in ChangeSet
  <2>1. PICK pair \in pairs : pair[1] = p /\ SourceOf(pairs, p) = pair[2]
    BY SourceOfIs
  <2> QED
    BY <1>1, <1>2, <2>1 DEF ChangeSet, Modes
<1>4. /\ DOMAIN AddChanges(op) = PathsOf(pairs)
      /\ AddChanges(op) = [p \in PathsOf(pairs) |-> Add(SourceOf(pairs, p), op.mode)]
  BY DEF AddChanges
<1> HIDE DEF pairs
<1>5. AddChanges(op) \in [PathsOf(pairs) -> ChangeSet]
  BY <1>3, <1>4
<1> QED
  BY <1>3, <1>4, <1>5, ChangesAre

LEMMA MoveChangesType ==
    ASSUME NEW files \in FileSets, NEW op \in OpSet, op.kind = "mv", StaysInPaths(op)
    PROVE  MoveChanges(files, op.from, op.to) \in Changes
<1> DEFINE sources == {p \in DOMAIN files : Within(p, op.from)}
           new(p) == MovedPath(p, op.from, op.to)
           removes == {p \in sources : \A q \in sources : new(q) = p => WalkLess(q, p)}
           adds == {new(p) : p \in sources} \ removes
           removing == [p \in removes |-> Remove]
           adding == [p \in adds |-> AddMoved(files[CHOOSE q \in sources : new(q) = p])]
<1>1. op.from # None
  BY OpKinds
<1>2. \A p \in sources : p \in Paths /\ files[p] \in EntrySet /\ new(p) \in Paths
  BY <1>1, FileSetsAre DEF IsFiles, StaysInPaths
<1>3. removing \in Changes
  <2>1. removing \in [removes -> ChangeSet]
    BY DEF ChangeSet
  <2> QED
    BY <1>2, <2>1, ChangesAre
<1>4. adding \in Changes
  <2>1. ASSUME NEW p \in adds
        PROVE  p \in Paths /\ AddMoved(files[CHOOSE q \in sources : new(q) = p]) \in ChangeSet
    <3> DEFINE old == CHOOSE q \in sources : new(q) = p
    <3>1. PICK q \in sources : new(q) = p
      BY <2>1
    <3>2. old \in sources
      BY <3>1
    <3> HIDE DEF old
    <3>3. files[old] \in EntrySet
      BY <1>2, <3>2
    <3>4. AddMoved(files[old]) \in ChangeSet
      BY <3>3 DEF ChangeSet
    <3>5. p \in Paths
      BY <1>2, <3>1
    <3> QED
      BY <3>4, <3>5 DEF old
  <2>2. adding \in [adds -> ChangeSet]
    BY <2>1
  <2> QED
    BY <2>1, <2>2, ChangesAre
<1>5. MoveChanges(files, op.from, op.to) = Over(removing, adding)
  BY DEF MoveChanges
<1> HIDE DEF removing, adding
<1> QED
  BY <1>3, <1>4, <1>5, OverChanges

LEMMA StageChangesType ==
    ASSUME NEW op \in OpSet, StaysInPaths(op), op.kind \in {"add", "rm", "mv"},
           NEW files \in FileSets
    PROVE  StageChanges(op, files) \in Changes
<1>1. CASE op.kind = "add"
  BY <1>1, AddChangesType DEF StageChanges
<1>2. CASE op.kind = "rm"
  <2>1. op.path \in Paths
    BY <1>2, OpKinds
  <2>2. [p \in {op.path} |-> Remove] \in [{op.path} -> ChangeSet]
    BY DEF ChangeSet
  <2>3. StageChanges(op, files) = [p \in {op.path} |-> Remove]
    BY <1>2 DEF StageChanges
  <2> QED
    BY <2>1, <2>2, <2>3 DEF Changes
<1>3. CASE op.kind = "mv"
  BY <1>3, MoveChangesType DEF StageChanges
<1> QED
  BY <1>1, <1>2, <1>3
-----------------------------------------------------------------------------
(* The types.                                                              *)

Phases == {"idle", "stage", "entries", "build", "cas", "clear", "look", "put"}

Records ==
    [pc : Phases, op : OpSet \union {None}, loaded : Changes, entries : EntryMaps,
     parent : Nat, result : EntryMaps, tries : Nat, calm : BOOLEAN,
     was : Disks \union {None}]

\* What a process is at: its operation is one that goes through the phase,
\* and what it is about to publish is a set of files.
Working(p) ==
    LET r == proc[p]
    IN  /\ r.pc # "idle" => r.op \in Ops[p]
        /\ r.pc = "stage" => r.op.kind \in {"add", "rm", "mv"}
        /\ r.pc \in {"entries", "clear"} => r.op.kind = "commit"
        /\ r.pc \in {"build", "cas"} =>
             r.op.kind \in {"commit", "import", "move", "remove", "promote"}
        /\ r.pc \in {"look", "put"} => r.op.kind = "restore"
        /\ r.pc = "cas" => r.result \in FileSets /\ r.parent \in 0 .. head

TypeInv ==
    /\ disk \in Disks
    /\ PrefixFree(DOMAIN Worktree)
    /\ staged \in Changes
    /\ trees \in Seq(FileSets)
    /\ head = Len(trees)
    /\ snapshot \in (1 .. head) \union {None}
    /\ proc \in [Procs -> Records]
    /\ \A p \in Procs : Working(p)

LEMMA TypeInvImplies == TypeInv => TypeOK
<1> SUFFICES ASSUME TypeInv
             PROVE  TypeOK
  OBVIOUS
<1>1. DOMAIN disk = Sources /\ \A s \in Sources : disk[s] \in Contents \union {None}
  BY DEF TypeInv, Disks
<1>2. \A p \in DOMAIN staged : staged[p] \in ChangeSet
  BY ChangesAre DEF TypeInv
<1>3. /\ Len(trees) \in Nat /\ DOMAIN trees = 1 .. Len(trees)
      /\ \A i \in DOMAIN trees : trees[i] \in FileSets
  BY DEF TypeInv
<1>4. \A i \in DOMAIN trees : IsFiles(trees[i]) /\ DOMAIN trees[i] \subseteq Paths
  BY <1>3, FileSetsAre
<1>5. head \in 0 .. Len(trees) /\ snapshot \in (1 .. Len(trees)) \union {None}
  BY <1>3 DEF TypeInv
<1>6. ASSUME NEW p \in Procs
      PROVE  proc[p].pc \in Phases /\ (proc[p].pc = "cas" => IsFiles(proc[p].result))
  <2>1. proc[p] \in Records /\ Working(p)
    BY DEF TypeInv
  <2> QED
    BY <2>1, FileSetsAre DEF Records, Working
<1> QED
  BY <1>1, <1>2, <1>4, <1>5, <1>6 DEF TypeOK, TypeInv, Phases

LEMMA IdleIs ==
    /\ Idle \in Records
    /\ Idle.pc = "idle"
BY NoChangesIs DEF Idle, Records, Phases

LEMMA FilesAtType ==
    ASSUME trees \in Seq(FileSets), NEW id \in 0 .. Len(trees)
    PROVE  FilesAt(id) \in FileSets
BY NoChangesIs DEF FilesAt

\* The files of a commit stay what they are when another follows.
LEMMA FilesAtStay ==
    ASSUME trees \in Seq(FileSets), NEW f \in FileSets, trees' = Append(trees, f)
    PROVE  /\ trees' \in Seq(FileSets)
           /\ Len(trees') = Len(trees) + 1
           /\ trees'[Len(trees')] = f
           /\ \A id \in 0 .. Len(trees) :
                (IF id = 0 THEN NoFiles ELSE trees'[id]) = FilesAt(id)
<1>1. /\ trees' \in Seq(FileSets) /\ Len(trees) \in Nat
      /\ Len(trees') = Len(trees) + 1
      /\ trees'[Len(trees) + 1] = f
      /\ \A i \in 1 .. Len(trees) : trees'[i] = trees[i]
  BY AppendProperties
<1> QED
  BY <1>1 DEF FilesAt

\* What a step does to the other processes at most: a source has changed.
Disturbs(p) ==
    \A q \in Procs \ {p} : \/ proc'[q] = proc[q]
                           \/ /\ proc'[q] = [proc[q] EXCEPT !.calm = FALSE]
                              /\ proc[q] # Idle

\* A step keeps Working of processes it at most disturbs.
LEMMA WorkingStays ==
    ASSUME TypeInv, NEW p \in Procs, head' \in Nat, head <= head',
           \/ proc'[p] = proc[p]
           \/ proc'[p] = [proc[p] EXCEPT !.calm = FALSE]
    PROVE  proc'[p] \in Records /\ Working(p)'
<1>1. proc[p] \in Records /\ Working(p) /\ head \in Nat
  BY DEF TypeInv
<1>2. /\ proc'[p] \in Records
      /\ proc'[p].pc = proc[p].pc /\ proc'[p].op = proc[p].op
      /\ proc'[p].result = proc[p].result /\ proc'[p].parent = proc[p].parent
  BY <1>1 DEF Records
<1>3. proc[p].parent \in 0 .. head => proc[p].parent \in 0 .. head'
  BY <1>1
<1> QED
  BY <1>1, <1>2, <1>3 DEF Working

LEMMA WorkingIdle ==
    ASSUME NEW p \in Procs, proc'[p] = Idle
    PROVE  proc'[p] \in Records /\ Working(p)'
BY IdleIs DEF Working
LEMMA StepKeepsTypes ==
    ASSUME TypeInv, NEW p \in Procs, NEW rec \in Records,
           proc' = [proc EXCEPT ![p] = rec], Working(p)',
           disk' = disk, staged' \in Changes,
           trees' \in Seq(FileSets), head' = Len(trees'), head' \in Nat, head <= head',
           snapshot' \in (1 .. head') \union {None}
    PROVE  TypeInv'
<1>1. \A q \in Procs : q # p => proc'[q] = proc[q]
  BY DEF TypeInv
<1>2. \A q \in Procs : Working(q)'
  BY <1>1, WorkingStays
<1>3. proc' \in [Procs -> Records]
  BY DEF TypeInv
<1>4. Worktree' = Worktree
  BY DEF Worktree
<1> QED
  BY <1>2, <1>3, <1>4 DEF TypeInv

\* A process that is done, or dies, changes nothing else.
LEMMA DoneKeepsTypes ==
    ASSUME TypeInv, NEW p \in Procs, Done(p),
           disk' = disk, staged' \in Changes, trees' = trees, head' = head,
           snapshot' \in (1 .. head) \union {None}
    PROVE  TypeInv'
<1>1. proc' = [proc EXCEPT ![p] = Idle] /\ proc'[p] = Idle
  BY DEF Done, TypeInv
<1>2. head' \in Nat /\ head <= head' /\ trees' \in Seq(FileSets) /\ head' = Len(trees')
  BY DEF TypeInv
<1> QED
  BY <1>1, <1>2, IdleIs, WorkingIdle, StepKeepsTypes

LEMMA HeadIs ==
    ASSUME TypeInv
    PROVE  /\ head \in Nat /\ head <= head
           /\ FilesAt(head) \in FileSets
           /\ \A id \in 0 .. head : FilesAt(id) \in FileSets
<1>1. trees \in Seq(FileSets) /\ head = Len(trees) /\ head \in Nat
  BY DEF TypeInv
<1>2. head \in 0 .. head
  BY <1>1
<1> QED
  BY <1>1, <1>2, FilesAtType

\* How a process begins.
FirstPhase(op) ==
    CASE op.kind \in {"add", "rm", "mv"} -> "stage"
      [] op.kind = "commit"  -> "entries"
      [] op.kind = "restore" -> "look"
      [] OTHER -> "build"

Begun(op) ==
    [Idle EXCEPT !.op = op,
        !.pc = FirstPhase(op),
        !.loaded = IF op.kind \in StagingKinds THEN staged ELSE NoFiles,
        !.entries = IF op.kind = "restore" THEN Restored(op) ELSE NoFiles,
        !.result = IF op.kind = "restore" THEN Restored(op) ELSE NoFiles,
        !.was = IF op.kind = "restore" THEN disk ELSE None]

LEMMA RestoredType ==
    ASSUME TypeInv, NEW op
    PROVE  Restored(op) \in FileSets
<1>1. {p \in DOMAIN FilesAt(head) : Within(p, op.path)} \subseteq DOMAIN FilesAt(head)
  OBVIOUS
<1> QED
  BY <1>1, HeadIs, OnlyFiles DEF Restored

LEMMA BegunIs ==
    ASSUME TypeInv, NEW op \in OpSet
    PROVE  /\ Begun(op) \in Records
           /\ Begun(op).op = op
           /\ Begun(op).pc = FirstPhase(op)
           /\ Begun(op).loaded = (IF op.kind \in StagingKinds THEN staged ELSE NoFiles)
           /\ Begun(op).entries = (IF op.kind = "restore" THEN Restored(op) ELSE NoFiles)
           /\ Begun(op).result = (IF op.kind = "restore" THEN Restored(op) ELSE NoFiles)
           /\ Begun(op).was = (IF op.kind = "restore" THEN disk ELSE None)
           /\ Begun(op).calm = TRUE
<1> DEFINE l == IF op.kind \in StagingKinds THEN staged ELSE NoFiles
           e == IF op.kind = "restore" THEN Restored(op) ELSE NoFiles
           w == IF op.kind = "restore" THEN disk ELSE None
<1>1. FirstPhase(op) \in Phases
  BY OpKinds DEF FirstPhase, Phases
<1>2. l \in Changes
  BY NoChangesIs DEF TypeInv
<1>3. e \in EntryMaps
  BY RestoredType, FilesAreEntries, NoChangesIs
<1>4. w \in Disks \union {None}
  BY DEF TypeInv
<1> DEFINE pc == FirstPhase(op)
<1>5. Begun(op) = [Idle EXCEPT !.op = op, !.pc = pc, !.loaded = l, !.entries = e,
                       !.result = e, !.was = w]
  BY DEF Begun
<1> HIDE DEF l, e, w, pc
<1>6. Begun(op) = [pc |-> pc, op |-> op, loaded |-> l, entries |-> e,
                   parent |-> 0, result |-> e, tries |-> 0, calm |-> TRUE, was |-> w]
  BY <1>5 DEF Idle
<1>7. Begun(op) \in Records
  BY <1>1, <1>2, <1>3, <1>4, <1>6 DEF Records, pc
<1> QED
  BY <1>6, <1>7 DEF l, e, w, pc

LEMMA BeginDoes ==
    ASSUME NEW p \in Procs, Begin(p)
    PROVE  /\ proc[p].pc = "idle"
           /\ UNCHANGED <<disk, store, area>>
           /\ \E op \in Ops[p] :
                /\ proc' = [proc EXCEPT ![p] = Begun(op)]
                /\ overlapped' = (overlapped \/
                                    /\ op.kind \in StagingKinds
                                    /\ \E q \in Procs : /\ proc[q].pc # "idle"
                                                        /\ proc[q].op.kind \in StagingKinds)
BY DEF Begin, Begun, FirstPhase

LEMMA BeginType ==
    ASSUME TypeInv, NEW p \in Procs, Begin(p)
    PROVE  TypeInv'
<1>1. PICK op \in Ops[p] : proc' = [proc EXCEPT ![p] = Begun(op)]
  BY BeginDoes
<1>2. UNCHANGED <<disk, trees, head, snapshot, staged>>
  BY BeginDoes DEF store, area
<1>3. op \in OpSet
  BY ProcOps
<1>4. Begun(op) \in Records /\ proc'[p] = Begun(op)
  BY <1>1, <1>3, BegunIs DEF TypeInv
<1>5. Working(p)'
  <2>1. /\ FirstPhase(op) \notin {"cas", "clear", "put"}
        /\ FirstPhase(op) = "stage" => op.kind \in {"add", "rm", "mv"}
        /\ FirstPhase(op) = "entries" => op.kind = "commit"
        /\ FirstPhase(op) = "look" => op.kind = "restore"
        /\ FirstPhase(op) = "build" => op.kind \in {"import", "move", "remove", "promote"}
    BY <1>3, OpKinds DEF FirstPhase
  <2>2. proc'[p].pc = FirstPhase(op) /\ proc'[p].op = op
    BY <1>3, <1>4, BegunIs
  <2> QED
    BY <2>1, <2>2 DEF Working
<1>6. /\ staged' \in Changes /\ trees' \in Seq(FileSets) /\ head' = Len(trees')
      /\ snapshot' \in (1 .. head') \union {None}
  BY <1>2 DEF TypeInv
<1>7. head' \in Nat /\ head <= head'
  BY <1>2, HeadIs
<1> HIDE DEF Begun
<1> QED
  BY <1>1, <1>2, <1>4, <1>5, <1>6, <1>7, StepKeepsTypes
LEMMA StageType ==
    ASSUME TypeInv, NEW p \in Procs, Stage(p)
    PROVE  TypeInv'
<1> DEFINE op == proc[p].op
           own == StageChanges(op, FilesAt(head))
           changes == Over(own, proc[p].loaded)
<1>1. proc[p] \in Records /\ Working(p) /\ proc[p].pc = "stage"
  BY DEF Stage, TypeInv
<1>2. op \in OpSet /\ StaysInPaths(op) /\ op.kind \in {"add", "rm", "mv"}
  BY <1>1, ProcOps DEF Working
<1>3. own \in Changes
  BY <1>2, HeadIs, StageChangesType
<1>4. proc[p].loaded \in Changes
  BY <1>1 DEF Records
<1> HIDE DEF own
<1>5. changes \in Changes
  BY <1>3, <1>4, OverChanges
<1>6. staged' = staged \/ staged' = changes
  BY DEF Stage, own, area
<1>7. staged' \in Changes
  BY <1>5, <1>6 DEF TypeInv
<1>8. Done(p) /\ disk' = disk /\ trees' = trees /\ head' = head /\ snapshot' = snapshot
  BY DEF Stage, store
<1> QED
  BY <1>7, <1>8, DoneKeepsTypes DEF TypeInv

LEMMA MaterializeDoes ==
    ASSUME TypeInv, NEW p \in Procs, Materialize(p)
    PROVE  /\ proc[p].pc = "entries"
           /\ UNCHANGED <<disk, store, area, overlapped>>
           /\ \/ Done(p)
              \/ LET entries == Entries(proc[p].loaded)
                     rec == [proc[p] EXCEPT !.pc = "build", !.entries = entries,
                              !.tries = IF proc[p].op.staged THEN StagedRetries ELSE 1]
                 IN  /\ ~ \E q \in DOMAIN entries : entries[q] = None
                     /\ entries \in EntryMaps
                     /\ proc' = [proc EXCEPT ![p] = rec]
                     /\ rec \in Records
                     /\ rec.pc = "build" /\ rec.entries = entries
                     /\ rec.op = proc[p].op /\ rec.loaded = proc[p].loaded
                     /\ rec.calm = proc[p].calm
<1> DEFINE entries == Entries(proc[p].loaded)
           tries == IF proc[p].op.staged THEN StagedRetries ELSE 1
           rec == [proc[p] EXCEPT !.pc = "build", !.entries = entries, !.tries = tries]
<1>1. proc[p].pc = "entries" /\ UNCHANGED <<disk, store, area, overlapped>>
  BY DEF Materialize
<1>2. CASE \E q \in DOMAIN entries : entries[q] = None
  BY <1>1, <1>2 DEF Materialize
<1>3. CASE ~ \E q \in DOMAIN entries : entries[q] = None
  <2>1. proc[p] \in Records /\ proc \in [Procs -> Records]
    BY DEF TypeInv
  <2>2. disk \in Disks /\ proc[p].loaded \in Changes
    BY <2>1 DEF TypeInv, Records
  <2>3. entries \in EntryMaps
    BY <1>3, <2>2, EntriesType
  <2>4. proc' = [proc EXCEPT ![p] = rec]
    BY <1>3, <2>1 DEF Materialize
  <2>5. tries \in Nat
    BY StagingAssumption
  <2> HIDE DEF entries, tries
  <2>6. /\ rec \in Records
        /\ rec.pc = "build" /\ rec.entries = entries
        /\ rec.op = proc[p].op /\ rec.loaded = proc[p].loaded /\ rec.calm = proc[p].calm
    BY <2>1, <2>3, <2>5 DEF Records, Phases
  <2> QED
    BY <1>1, <1>3, <2>3, <2>4, <2>6 DEF entries, tries
<1> QED
  BY <1>2, <1>3

LEMMA MaterializeType ==
    ASSUME TypeInv, NEW p \in Procs, Materialize(p)
    PROVE  TypeInv'
<1>1. UNCHANGED <<disk, staged, trees, head, snapshot>>
  BY DEF Materialize, store, area
<1>2. /\ staged' \in Changes /\ trees' \in Seq(FileSets) /\ head' = Len(trees')
      /\ head' \in Nat /\ head <= head' /\ snapshot' \in (1 .. head') \union {None}
  BY <1>1, HeadIs DEF TypeInv
<1>3. CASE Done(p)
  BY <1>1, <1>2, <1>3, DoneKeepsTypes
<1>4. CASE ~Done(p)
  <2> DEFINE rec == [proc[p] EXCEPT !.pc = "build", !.entries = Entries(proc[p].loaded),
                       !.tries = IF proc[p].op.staged THEN StagedRetries ELSE 1]
  <2>1. /\ proc[p].pc = "entries"
        /\ proc' = [proc EXCEPT ![p] = rec]
        /\ rec \in Records /\ rec.pc = "build" /\ rec.op = proc[p].op
    BY <1>4, MaterializeDoes
  <2> HIDE DEF rec
  <2>2. proc'[p] = rec /\ Working(p)
    BY <2>1 DEF TypeInv
  <2>3. Working(p)'
    BY <2>1, <2>2 DEF Working
  <2> QED
    BY <1>1, <1>2, <2>1, <2>3, StepKeepsTypes
<1> QED
  BY <1>3, <1>4

\* The commit an operation builds on.
Parent(p) ==
    IF proc[p].op.kind = "promote" \/ snapshot = None THEN head ELSE snapshot

LEMMA BuildDoes ==
    ASSUME TypeInv, NEW p \in Procs, Build(p)
    PROVE  LET r == proc[p]
               files == FilesAt(Parent(p))
               removed == RemovesOf(r.loaded)
               rec == [r EXCEPT !.pc = "cas", !.parent = Parent(p),
                          !.result = Result(r.op, files, r.entries, removed)]
           IN  /\ r.pc = "build"
               /\ UNCHANGED <<disk, area, trees, head, overlapped>>
               /\ Parent(p) \in 0 .. head
               /\ snapshot' \in (1 .. head) \union {None}
               /\ \/ Done(p)
                  \/ /\ ~Raises(r.op, files, r.entries, removed)
                     /\ rec.result \in FileSets
                     /\ proc' = [proc EXCEPT ![p] = rec]
                     /\ rec \in Records
                     /\ rec.pc = "cas" /\ rec.parent = Parent(p)
                     /\ rec.result = Result(r.op, files, r.entries, removed)
                     /\ rec.op = r.op /\ rec.loaded = r.loaded /\ rec.entries = r.entries
                     /\ rec.calm = r.calm
<1> DEFINE r == proc[p]
           parent == Parent(p)
           files == FilesAt(parent)
           removed == RemovesOf(r.loaded)
           result == Result(r.op, files, r.entries, removed)
           rec == [r EXCEPT !.pc = "cas", !.parent = parent, !.result = result]
<1>1. r \in Records /\ Working(p) /\ r.pc = "build" /\ proc \in [Procs -> Records]
  BY DEF TypeInv, Build
<1>2. UNCHANGED <<disk, area, trees, head, overlapped>>
  BY DEF Build
<1>3. parent \in 0 .. head
  BY HeadIs, StagingAssumption DEF TypeInv, Parent
<1>4. snapshot' = IF r.op.kind = "promote" \/ parent = 0 THEN snapshot ELSE parent
  BY DEF Build, Parent
<1>5. snapshot' \in (1 .. head) \union {None}
  <2>1. CASE r.op.kind = "promote" \/ parent = 0
    BY <1>4, <2>1 DEF TypeInv
  <2>2. CASE ~(r.op.kind = "promote" \/ parent = 0)
    <3>1. parent \in 1 .. head
      BY <1>3, <2>2, HeadIs
    <3> QED
      BY <1>4, <2>2, <3>1
  <2> QED
    BY <2>1, <2>2
<1>6. CASE Done(p)
  BY <1>1, <1>2, <1>3, <1>5, <1>6
<1>7. CASE ~Done(p)
  <2>1. ~Raises(r.op, files, r.entries, removed) /\ proc' = [proc EXCEPT ![p] = rec]
    BY <1>1, <1>7 DEF Build, Parent
  <2>2. r.op \in OpSet /\ StaysInPaths(r.op)
        /\ r.op.kind \in {"commit", "import", "move", "remove", "promote"}
    BY <1>1, ProcOps DEF Working
  <2>3. files \in FileSets /\ r.entries \in EntryMaps
    BY <1>1, <1>3, HeadIs DEF Records
  <2>4. disk \in Disks /\ PrefixFree(DOMAIN Worktree)
    BY DEF TypeInv
  <2>5. result \in FileSets
    BY <2>1, <2>2, <2>3, <2>4, ResultType
  <2>6. parent \in Nat
    BY <1>3, HeadIs
  <2> HIDE DEF result, parent
  <2>7. /\ rec \in Records
        /\ rec.pc = "cas" /\ rec.parent = parent /\ rec.result = result
        /\ rec.op = r.op /\ rec.loaded = r.loaded /\ rec.entries = r.entries
        /\ rec.calm = r.calm
    BY <1>1, <2>5, <2>6, FilesAreEntries DEF Records, Phases
  <2> QED
    BY <1>1, <1>2, <1>3, <1>5, <2>1, <2>5, <2>7 DEF result, parent
<1> QED
  BY <1>6, <1>7

LEMMA BuildType ==
    ASSUME TypeInv, NEW p \in Procs, Build(p)
    PROVE  TypeInv'
<1>1. UNCHANGED <<disk, staged, trees, head>> /\ snapshot' \in (1 .. head) \union {None}
  BY BuildDoes DEF area
<1>2. /\ staged' \in Changes /\ trees' \in Seq(FileSets) /\ head' = Len(trees')
      /\ head' \in Nat /\ head <= head' /\ snapshot' \in (1 .. head') \union {None}
  BY <1>1, HeadIs DEF TypeInv
<1>3. CASE Done(p)
  BY <1>1, <1>2, <1>3, DoneKeepsTypes
<1>4. CASE ~Done(p)
  <2> DEFINE rec == [proc[p] EXCEPT !.pc = "cas", !.parent = Parent(p),
                       !.result = Result(proc[p].op, FilesAt(Parent(p)), proc[p].entries,
                                         RemovesOf(proc[p].loaded))]
  <2>1. /\ proc[p].pc = "build"
        /\ Parent(p) \in 0 .. head
        /\ proc' = [proc EXCEPT ![p] = rec]
        /\ rec \in Records /\ rec.pc = "cas" /\ rec.op = proc[p].op
        /\ rec.result \in FileSets /\ rec.parent = Parent(p)
    BY <1>4, BuildDoes
  <2> HIDE DEF rec
  <2>2. proc'[p] = rec /\ Working(p)
    BY <2>1 DEF TypeInv
  <2>3. Working(p)'
    BY <1>1, <2>1, <2>2 DEF Working
  <2> QED
    BY <1>1, <1>2, <2>1, <2>3, StepKeepsTypes
<1> QED
  BY <1>3, <1>4
\* A compare-and-set publishes what was built on the head, or loses and
\* learns the head; commit --staged builds again as long as it may.
LEMMA CasDoes ==
    ASSUME TypeInv, NEW p \in Procs, Cas(p)
    PROVE  LET r == proc[p]
           IN  /\ r.pc = "cas" /\ r.result \in FileSets
               /\ UNCHANGED <<disk, area, overlapped>>
               /\ \/ /\ head = r.parent
                     /\ trees' = Append(trees, r.result)
                     /\ head' = Len(trees') /\ snapshot' = head'
                     /\ IF r.op.kind = "commit"
                        THEN LET rec == [r EXCEPT !.pc = "clear"]
                             IN  /\ rec \in Records /\ proc' = [proc EXCEPT ![p] = rec]
                                 /\ rec.pc = "clear" /\ rec.op = r.op
                                 /\ rec.loaded = r.loaded /\ rec.calm = r.calm
                        ELSE Done(p)
                  \/ /\ head # r.parent
                     /\ UNCHANGED <<trees, head>>
                     /\ snapshot' = head /\ head \in 1 .. head
                     /\ \/ Done(p)
                        \/ LET rec == [r EXCEPT !.pc = "build", !.tries = r.tries - 1]
                           IN  /\ rec \in Records /\ proc' = [proc EXCEPT ![p] = rec]
                               /\ rec.pc = "build" /\ rec.op = r.op /\ rec.loaded = r.loaded
                               /\ rec.entries = r.entries /\ rec.calm = r.calm
<1> DEFINE r == proc[p]
           cleared == [r EXCEPT !.pc = "clear"]
           again == [r EXCEPT !.pc = "build", !.tries = r.tries - 1]
<1>1. /\ r \in Records /\ Working(p) /\ r.pc = "cas" /\ proc \in [Procs -> Records]
      /\ head \in Nat
  BY HeadIs DEF TypeInv, Cas
<1>2. UNCHANGED <<disk, area, overlapped>>
  BY DEF Cas
<1>3. r.result \in FileSets /\ r.parent \in 0 .. head
  BY <1>1 DEF Working
<1>4. CASE head = r.parent
  <2>1. /\ cleared \in Records /\ cleared.pc = "clear" /\ cleared.op = r.op
        /\ cleared.loaded = r.loaded /\ cleared.calm = r.calm
    BY <1>1 DEF Records, Phases
  <2>2. /\ trees' = Append(trees, r.result) /\ head' = Len(trees') /\ snapshot' = head'
        /\ IF r.op.kind = "commit" THEN proc' = [proc EXCEPT ![p].pc = "clear"] ELSE Done(p)
    BY <1>4 DEF Cas
  <2>3. [proc EXCEPT ![p].pc = "clear"] = [proc EXCEPT ![p] = cleared]
    BY <1>1
  <2> HIDE DEF cleared
  <2> QED
    BY <1>1, <1>2, <1>3, <1>4, <2>1, <2>2, <2>3 DEF cleared
<1>5. CASE head # r.parent
  <2>1. head \in 1 .. head
    BY <1>1, <1>3, <1>5
  <2>2. UNCHANGED <<trees, head>> /\ snapshot' = head
    BY <1>5 DEF Cas
  <2>3. CASE r.tries > 1
    <3>1. r.tries - 1 \in Nat
      BY <1>1, <2>3 DEF Records
    <3>2. /\ again \in Records /\ again.pc = "build" /\ again.op = r.op
          /\ again.loaded = r.loaded /\ again.entries = r.entries /\ again.calm = r.calm
      BY <1>1, <3>1 DEF Records, Phases
    <3>3. proc' = [proc EXCEPT ![p] = again]
      BY <1>1, <1>5, <2>3 DEF Cas
    <3> HIDE DEF again
    <3> QED
      BY <1>1, <1>2, <1>3, <1>5, <2>1, <2>2, <3>2, <3>3 DEF again
  <2>4. CASE ~(r.tries > 1)
    <3>1. Done(p)
      BY <1>5, <2>4 DEF Cas
    <3> QED
      BY <1>1, <1>2, <1>3, <1>5, <2>1, <2>2, <3>1
  <2> QED
    BY <2>3, <2>4
<1> QED
  BY <1>4, <1>5

\* A branch that got one more commit.
LEMMA PublishTypes ==
    ASSUME TypeInv, NEW f \in FileSets, trees' = Append(trees, f), head' = Len(trees')
    PROVE  /\ trees' \in Seq(FileSets)
           /\ head' = head + 1 /\ head' \in Nat /\ head <= head'
           /\ head' \in 1 .. head'
           /\ 1 .. head \subseteq 1 .. head'
<1>1. trees \in Seq(FileSets) /\ head = Len(trees) /\ head \in Nat
  BY HeadIs DEF TypeInv
<1>2. trees' \in Seq(FileSets) /\ Len(trees') = head + 1
  BY <1>1, FilesAtStay
<1> QED
  BY <1>1, <1>2

LEMMA CasType ==
    ASSUME TypeInv, NEW p \in Procs, Cas(p)
    PROVE  TypeInv'
<1> DEFINE r == proc[p]
<1>1. /\ r.pc = "cas" /\ r.result \in FileSets /\ UNCHANGED <<disk, staged>>
      /\ Working(p) /\ proc \in [Procs -> Records] /\ staged' \in Changes
  BY CasDoes DEF area, TypeInv
<1>2. CASE head = r.parent
  <2>1. trees' = Append(trees, r.result) /\ head' = Len(trees') /\ snapshot' = head'
    BY <1>2, CasDoes
  <2>2. /\ trees' \in Seq(FileSets) /\ head' \in Nat /\ head <= head'
        /\ snapshot' \in (1 .. head') \union {None}
    BY <1>1, <2>1, PublishTypes
  <2>3. CASE r.op.kind = "commit"
    <3> DEFINE rec == [r EXCEPT !.pc = "clear"]
    <3>1. /\ rec \in Records /\ proc' = [proc EXCEPT ![p] = rec]
          /\ rec.pc = "clear" /\ rec.op = r.op
      BY <1>2, <2>3, CasDoes
    <3> HIDE DEF rec
    <3>2. proc'[p] = rec
      BY <1>1, <3>1
    <3>3. Working(p)'
      BY <1>1, <2>3, <3>1, <3>2 DEF Working
    <3> QED
      BY <1>1, <2>1, <2>2, <3>1, <3>3, StepKeepsTypes
  <2>4. CASE r.op.kind # "commit"
    <3>1. proc' = [proc EXCEPT ![p] = Idle] /\ proc'[p] = Idle
      BY <1>1, <1>2, <2>4, CasDoes DEF Done
    <3> QED
      BY <1>1, <2>1, <2>2, <3>1, IdleIs, WorkingIdle, StepKeepsTypes
  <2> QED
    BY <2>3, <2>4
<1>3. CASE head # r.parent
  <2>1. UNCHANGED <<trees, head>> /\ snapshot' = head /\ head \in 1 .. head
    BY <1>3, CasDoes
  <2>2. /\ trees' \in Seq(FileSets) /\ head' = Len(trees') /\ head' \in Nat /\ head <= head'
        /\ snapshot' \in (1 .. head') \union {None}
    BY <2>1, HeadIs DEF TypeInv
  <2>3. CASE Done(p)
    BY <1>1, <2>1, <2>2, <2>3, DoneKeepsTypes
  <2>4. CASE ~Done(p)
    <3> DEFINE rec == [r EXCEPT !.pc = "build", !.tries = r.tries - 1]
    <3>1. /\ rec \in Records /\ proc' = [proc EXCEPT ![p] = rec]
          /\ rec.pc = "build" /\ rec.op = r.op
      BY <1>3, <2>4, CasDoes
    <3> HIDE DEF rec
    <3>2. proc'[p] = rec
      BY <1>1, <3>1
    <3>3. Working(p)'
      BY <1>1, <3>1, <3>2 DEF Working
    <3> QED
      BY <1>1, <2>1, <2>2, <3>1, <3>3, StepKeepsTypes
  <2> QED
    BY <2>3, <2>4
<1> QED
  BY <1>2, <1>3

LEMMA ClearType ==
    ASSUME TypeInv, NEW p \in Procs, Clear(p)
    PROVE  TypeInv'
<1>1. /\ Done(p) /\ staged' = NoFiles
      /\ UNCHANGED <<disk, trees, head, snapshot>>
  BY DEF Clear, store
<1> QED
  BY <1>1, NoChangesIs, DoneKeepsTypes DEF TypeInv

LEMMA CrashType ==
    ASSUME TypeInv, NEW p \in Procs, Crash(p)
    PROVE  TypeInv'
<1>1. Done(p) /\ UNCHANGED <<disk, staged, trees, head, snapshot>>
  BY DEF Crash, store, area
<1> QED
  BY <1>1, DoneKeepsTypes DEF TypeInv

LEMMA PeerType ==
    ASSUME TypeInv, Peer
    PROVE  TypeInv'
<1>1. PICK c \in PeerEdits : /\ trees' = Append(trees, FlatSplice(FilesAt(head), c.adds, c.removed))
                             /\ head' = Len(trees')
                             /\ UNCHANGED <<disk, area, snapshot, proc, overlapped>>
  BY DEF Peer
<1>2. c.adds \in FileSets
  BY StagingAssumption, FileSetsAre
<1>3. FlatSplice(FilesAt(head), c.adds, c.removed) \in FileSets
  BY <1>2, HeadIs, SpliceFiles
<1>4. /\ trees' \in Seq(FileSets) /\ head' \in Nat /\ head <= head'
      /\ 1 .. head \subseteq 1 .. head'
  BY <1>1, <1>3, PublishTypes
<1>5. \A q \in Procs : proc'[q] \in Records /\ Working(q)'
  BY <1>1, <1>4, WorkingStays
<1> QED
  BY <1>1, <1>4, <1>5 DEF TypeInv, area, Worktree
LEMMA WithoutEntries ==
    ASSUME NEW f \in EntryMaps, NEW gone
    PROVE  /\ Without(f, gone) \in EntryMaps
           /\ DOMAIN Without(f, gone) = DOMAIN f \ gone
           /\ \A q \in DOMAIN f \ gone : Without(f, gone)[q] = f[q]
<1>1. f \in [DOMAIN f -> EntrySet] /\ DOMAIN f \subseteq Paths
  BY EntryMapsAre DEF Additions
<1>2. /\ DOMAIN Without(f, gone) = DOMAIN f \ gone
      /\ \A q \in DOMAIN f \ gone : Without(f, gone)[q] = f[q]
      /\ Without(f, gone) \in [DOMAIN f \ gone -> EntrySet]
  BY <1>1 DEF Without, Only
<1> QED
  BY <1>1, <1>2, EntryMapsAre DEF Additions

LEMMA SkipIs ==
    ASSUME NEW p \in Procs, proc[p] \in Records, NEW path
    PROVE  /\ Skip(p, path) \in Records
           /\ Skip(p, path).pc = "look"
           /\ Skip(p, path).op = proc[p].op /\ Skip(p, path).loaded = proc[p].loaded
           /\ Skip(p, path).entries = proc[p].entries /\ Skip(p, path).was = proc[p].was
           /\ Skip(p, path).calm = proc[p].calm
           /\ Skip(p, path).result = Without(proc[p].result, {path})
<1> DEFINE left == Without(proc[p].result, {path})
<1>1. left \in EntryMaps
  BY WithoutEntries DEF Records
<1>2. Skip(p, path) = [proc[p] EXCEPT !.pc = "look", !.result = left]
  BY DEF Skip
<1> HIDE DEF left
<1>3. /\ Skip(p, path) \in Records
      /\ Skip(p, path).pc = "look"
      /\ Skip(p, path).op = proc[p].op /\ Skip(p, path).loaded = proc[p].loaded
      /\ Skip(p, path).entries = proc[p].entries /\ Skip(p, path).was = proc[p].was
      /\ Skip(p, path).calm = proc[p].calm
      /\ Skip(p, path).result = left
  BY <1>1, <1>2 DEF Records, Phases
<1> QED
  BY <1>3 DEF left

\* restore looks at a target, and skips it or is about to write it.
LEMMA LookDoes ==
    ASSUME TypeInv, NEW p \in Procs, Look(p)
    PROVE  /\ proc[p].pc = "look"
           /\ UNCHANGED <<disk, store, area, overlapped>>
           /\ \/ Done(p)
              \/ \E path \in DOMAIN proc[p].result :
                    /\ Exists(path) /\ ~proc[p].op.force
                    /\ proc' = [proc EXCEPT ![p] = Skip(p, path)]
              \/ LET rec == [proc[p] EXCEPT !.pc = "put"]
                 IN  /\ rec \in Records /\ proc' = [proc EXCEPT ![p] = rec]
                     /\ rec.pc = "put" /\ rec.op = proc[p].op
                     /\ rec.loaded = proc[p].loaded /\ rec.entries = proc[p].entries
                     /\ rec.was = proc[p].was
                     /\ rec.calm = proc[p].calm /\ rec.result = proc[p].result
                     /\ \E path \in FirstOf(proc[p].result) : Exists(path) => proc[p].op.force
<1> DEFINE rec == [proc[p] EXCEPT !.pc = "put"]
<1>1. /\ proc[p].pc = "look" /\ UNCHANGED <<disk, store, area, overlapped>>
  BY DEF Look
<1>2. CASE Done(p)
  BY <1>1, <1>2
<1>3. CASE ~Done(p)
  <2>1. PICK path \in FirstOf(proc[p].result) :
            proc' = [proc EXCEPT ![p] =
                IF Exists(path) /\ ~proc[p].op.force THEN Skip(p, path)
                ELSE [@ EXCEPT !.pc = "put"]]
    BY <1>3 DEF Look
  <2>2. path \in DOMAIN proc[p].result
    BY DEF FirstOf
  <2>3. CASE Exists(path) /\ ~proc[p].op.force
    BY <1>1, <2>1, <2>2, <2>3
  <2>4. CASE ~(Exists(path) /\ ~proc[p].op.force)
    <3>1. proc[p] \in Records /\ proc \in [Procs -> Records]
      BY DEF TypeInv
    <3>2. proc' = [proc EXCEPT ![p] = rec]
      BY <2>1, <2>4, <3>1
    <3>3. /\ rec \in Records
          /\ rec.pc = "put" /\ rec.op = proc[p].op
          /\ rec.loaded = proc[p].loaded /\ rec.entries = proc[p].entries
          /\ rec.was = proc[p].was
          /\ rec.calm = proc[p].calm /\ rec.result = proc[p].result
      BY <3>1 DEF Records, Phases
    <3>4. \E q \in FirstOf(proc[p].result) : Exists(q) => proc[p].op.force
      BY <2>1, <2>4
    <3> HIDE DEF rec
    <3> QED
      BY <1>1, <3>2, <3>3, <3>4 DEF rec
  <2> QED
    BY <2>3, <2>4
<1> QED
  BY <1>2, <1>3

LEMMA LookType ==
    ASSUME TypeInv, NEW p \in Procs, Look(p)
    PROVE  TypeInv'
<1>1. /\ proc[p].pc = "look" /\ UNCHANGED <<disk, staged, trees, head, snapshot>>
      /\ Working(p) /\ proc \in [Procs -> Records]
  BY LookDoes DEF store, area, TypeInv
<1>2. /\ staged' \in Changes /\ trees' \in Seq(FileSets) /\ head' = Len(trees')
      /\ head' \in Nat /\ head <= head' /\ snapshot' \in (1 .. head') \union {None}
  BY <1>1, HeadIs DEF TypeInv
<1>3. CASE Done(p)
  BY <1>1, <1>2, <1>3, DoneKeepsTypes
<1>4. ASSUME NEW rec \in Records, proc' = [proc EXCEPT ![p] = rec],
             rec.pc \in {"look", "put"}, rec.op = proc[p].op
      PROVE  TypeInv'
  <2>1. proc'[p] = rec
    BY <1>1, <1>4
  <2>2. Working(p)'
    BY <1>1, <1>4, <2>1 DEF Working
  <2> QED
    BY <1>1, <1>2, <1>4, <2>2, StepKeepsTypes
<1> DEFINE put == [proc[p] EXCEPT !.pc = "put"]
<1>5. CASE \E path \in DOMAIN proc[p].result : proc' = [proc EXCEPT ![p] = Skip(p, path)]
  <2>1. PICK path \in DOMAIN proc[p].result : proc' = [proc EXCEPT ![p] = Skip(p, path)]
    BY <1>5
  <2>2. Skip(p, path) \in Records /\ Skip(p, path).pc = "look" /\ Skip(p, path).op = proc[p].op
    BY <1>1, SkipIs
  <2> QED
    BY <1>4, <2>1, <2>2
<1>6. CASE put \in Records /\ proc' = [proc EXCEPT ![p] = put] /\ put.pc = "put" /\ put.op = proc[p].op
  BY <1>4, <1>6
<1> QED
  BY <1>3, <1>5, <1>6, LookDoes

\* A source that changes.
LEMMA WriteTypes ==
    ASSUME TypeInv, NEW s \in Sources, NEW v \in Contents \union {None},
           disk' = [disk EXCEPT ![s] = v],
           s \in Paths /\ v # None => Writable(s)
    PROVE  disk' \in Disks /\ PrefixFree(DOMAIN Worktree)'
<1>1. disk \in Disks /\ PrefixFree(DOMAIN Worktree)
  BY DEF TypeInv
<1>2. disk' \in Disks
  BY <1>1 DEF Disks
<1>3. DOMAIN Worktree' = {p \in Paths : disk'[p] # None}
  BY DEF Worktree, Only
<1>4. \A p \in Paths : p # s => disk'[p] = disk[p]
  BY <1>1 DEF Disks, Sources
<1>5. DOMAIN Worktree' \subseteq DOMAIN Worktree \union {s}
  BY <1>3, <1>4, WorktreeIs
<1>6. ASSUME NEW p \in DOMAIN Worktree', NEW q \in DOMAIN Worktree', Within(p, q)
      PROVE  p = q
  <2>1. CASE p \in DOMAIN Worktree /\ q \in DOMAIN Worktree
    BY <1>1, <1>6, <2>1 DEF PrefixFree
  <2>2. CASE p = s \/ q = s
    <3>1. s \in Paths /\ disk'[s] = v /\ v # None
      BY <1>1, <1>3, <2>2 DEF Disks
    <3>2. \A r \in DOMAIN Worktree : Within(s, r) \/ Within(r, s) => r = s
      BY <3>1 DEF Writable
    <3> QED
      BY <1>5, <1>6, <2>2, <3>2
  <2> QED
    BY <1>5, <2>1, <2>2
<1> QED
  BY <1>2, <1>6 DEF PrefixFree

LEMMA DisturbedIs ==
    ASSUME TypeInv, NEW q \in Procs
    PROVE  /\ Disturbed \in [Procs -> Records]
           /\ \/ Disturbed[q] = proc[q] /\ proc[q] = Idle
              \/ /\ Disturbed[q] = [proc[q] EXCEPT !.calm = FALSE]
                 /\ Disturbed[q].calm = FALSE
                 /\ proc[q] # Idle
<1>1. \A r \in Procs : proc[r] \in Records /\ [proc[r] EXCEPT !.calm = FALSE] \in Records
  BY DEF TypeInv, Records
<1>2. Disturbed \in [Procs -> Records]
  BY <1>1 DEF Disturbed
<1>3. Disturbed[q] = IF proc[q] = Idle THEN Idle ELSE [proc[q] EXCEPT !.calm = FALSE]
  BY DEF Disturbed
<1>4. [proc[q] EXCEPT !.calm = FALSE].calm = FALSE
  BY <1>1 DEF Records
<1> QED
  BY <1>2, <1>3, <1>4

\* restore writes a target, unless its bytes are gone or something is in the way.
LEMMA PutDoes ==
    ASSUME TypeInv, NEW p \in Procs, Put(p)
    PROVE  /\ proc[p].pc = "put"
           /\ UNCHANGED <<store, area, overlapped>>
           /\ \/ Done(p) /\ UNCHANGED disk
              \/ \E path \in FirstOf(proc[p].result) :
                   /\ path \in DOMAIN proc[p].result /\ path \in Paths
                   /\ proc[p].result[path] \in EntrySet
                   /\ Bytes(proc[p].result[path]) \in Contents
                   /\ Bytes(proc[p].result[path]) # None
                   /\ Writable(path)
                   /\ proc' = [Disturbed EXCEPT ![p] = Skip(p, path)]
                   /\ disk' = [disk EXCEPT ![path] = Bytes(proc[p].result[path])]
<1>1. proc[p].pc = "put" /\ UNCHANGED <<store, area, overlapped>>
  BY DEF Put
<1>2. PICK path \in FirstOf(proc[p].result) :
          LET bytes == Bytes(proc[p].result[path])
          IN  IF bytes = None \/ ~Writable(path)
              THEN Done(p) /\ UNCHANGED disk
              ELSE /\ proc' = [Disturbed EXCEPT ![p] = Skip(p, path)]
                   /\ disk' = [disk EXCEPT ![path] = bytes]
  BY DEF Put
<1>3. path \in DOMAIN proc[p].result
  BY DEF FirstOf
<1>4. proc[p].result \in EntryMaps
  BY DEF TypeInv, Records
<1>5. path \in Paths /\ proc[p].result[path] \in EntrySet
  BY <1>3, <1>4, EntryMapsAre DEF Additions
<1> DEFINE e == proc[p].result[path]
<1>6. Bytes(e) \in Contents \union {None}
  <2>1. CASE e.mode = "content"
    BY <1>5, <2>1, EntryKinds DEF Bytes
  <2>2. CASE e.mode = "pointer"
    <3>1. e.source \in Sources
      BY <1>5, <2>2, EntryKinds
    <3> QED
      BY <2>2, <3>1 DEF Bytes, TypeInv, Disks
  <2> QED
    BY <1>5, <2>1, <2>2, EntryKinds DEF Modes
<1> QED
  BY <1>1, <1>2, <1>3, <1>5, <1>6

LEMMA PutType ==
    ASSUME TypeInv, NEW p \in Procs, Put(p)
    PROVE  TypeInv'
<1>1. /\ proc[p].pc = "put" /\ UNCHANGED <<staged, trees, head, snapshot>>
      /\ Working(p) /\ proc \in [Procs -> Records]
  BY PutDoes DEF store, area, TypeInv
<1>2. /\ staged' \in Changes /\ trees' \in Seq(FileSets) /\ head' = Len(trees')
      /\ head' \in Nat /\ head <= head' /\ snapshot' \in (1 .. head') \union {None}
  BY <1>1, HeadIs DEF TypeInv
<1>3. CASE Done(p) /\ UNCHANGED disk
  BY <1>1, <1>2, <1>3, DoneKeepsTypes
<1>4. CASE ~(Done(p) /\ UNCHANGED disk)
  <2>1. PICK path \in Paths :
            /\ Bytes(proc[p].result[path]) \in Contents
            /\ Writable(path)
            /\ proc' = [Disturbed EXCEPT ![p] = Skip(p, path)]
            /\ disk' = [disk EXCEPT ![path] = Bytes(proc[p].result[path])]
    BY <1>4, PutDoes
  <2>2. disk' \in Disks /\ PrefixFree(DOMAIN Worktree)'
    BY <2>1, WriteTypes DEF Sources
  <2>3. Skip(p, path) \in Records /\ Skip(p, path).pc = "look" /\ Skip(p, path).op = proc[p].op
    BY <1>1, SkipIs
  <2>4. /\ proc' \in [Procs -> Records]
        /\ proc'[p] = Skip(p, path)
        /\ \A q \in Procs \ {p} : proc'[q] = Disturbed[q]
    BY <2>1, <2>3, DisturbedIs
  <2>5. Working(p)'
    BY <1>1, <2>3, <2>4 DEF Working
  <2>6. \A q \in Procs \ {p} : Working(q)'
    BY <1>2, <2>4, DisturbedIs, WorkingStays
  <2> QED
    BY <1>2, <2>2, <2>4, <2>5, <2>6 DEF TypeInv
<1> QED
  BY <1>3, <1>4

LEMMA WriteSourceType ==
    ASSUME TypeInv, WriteSource
    PROVE  TypeInv'
<1>1. PICK w \in Writes : /\ w.source \in Paths /\ w.content # None => Writable(w.source)
                          /\ disk' = [disk EXCEPT ![w.source] = w.content]
                          /\ proc' = Disturbed
                          /\ UNCHANGED <<store, area, overlapped>>
  BY DEF WriteSource
<1>2. w.source \in Sources /\ w.content \in Contents \union {None}
  BY StagingAssumption
<1>3. disk' \in Disks /\ PrefixFree(DOMAIN Worktree)'
  BY <1>1, <1>2, WriteTypes
<1>4. UNCHANGED <<staged, trees, head, snapshot>>
  BY <1>1 DEF store, area
<1>5. head' \in Nat /\ head <= head'
  BY <1>4, HeadIs
<1>6. \A q \in Procs : proc'[q] \in Records /\ Working(q)'
  BY <1>1, <1>5, DisturbedIs, WorkingStays
<1>7. proc' \in [Procs -> Records]
  <2>1. CASE Procs = {}
    BY <1>1, <2>1 DEF Disturbed
  <2>2. CASE Procs # {}
    BY <1>1, <2>2, DisturbedIs
  <2> QED
    BY <2>1, <2>2
<1> QED
  BY <1>3, <1>4, <1>6, <1>7 DEF TypeInv

LEMMA InitTypes ==
    ASSUME Init
    PROVE  TypeInv
<1>1. PICK s \in Starts :
        /\ disk = s.disk
        /\ staged = NoFiles
        /\ trees = IF s.files = NoFiles THEN <<>> ELSE <<s.files>>
        /\ head = Len(trees)
        /\ snapshot = None
        /\ proc = [p \in Procs |-> Idle]
  BY DEF Init
<1>2. /\ s.disk \in [Sources -> Contents \union {None}]
      /\ PrefixFree({p \in Paths : s.disk[p] # None})
      /\ IsFiles(s.files) /\ DOMAIN s.files \subseteq Paths
  BY StagingAssumption
<1>3. s.files \in FileSets
  BY <1>2, FileSetsAre
<1>4. trees \in Seq(FileSets)
  BY <1>1, <1>3
<1>5. disk \in Disks /\ PrefixFree(DOMAIN Worktree)
  BY <1>1, <1>2, WorktreeIs DEF Disks
<1>6. proc \in [Procs -> Records] /\ \A p \in Procs : Working(p)
  BY <1>1, IdleIs DEF Working
<1> QED
  BY <1>1, <1>4, <1>5, <1>6, NoChangesIs DEF TypeInv

LEMMA TypeInvariance == Spec => []TypeInv
<1>1. ASSUME TypeInv, Next
      PROVE  TypeInv'
  <2>1. CASE Peer
    BY <1>1, <2>1, PeerType
  <2>2. CASE WriteSource
    BY <1>1, <2>2, WriteSourceType
  <2>3. ASSUME NEW p \in Procs,
               \/ Begin(p) \/ Stage(p) \/ Materialize(p) \/ Build(p) \/ Cas(p) \/ Clear(p)
               \/ Look(p) \/ Put(p) \/ Crash(p)
        PROVE  TypeInv'
    BY <1>1, <2>3, BeginType, StageType, MaterializeType, BuildType, CasType, ClearType,
       LookType, PutType, CrashType
  <2> QED
    BY <1>1, <2>1, <2>2, <2>3 DEF Next
<1>2. ASSUME TypeInv, UNCHANGED vars
      PROVE  TypeInv'
  <2>1. UNCHANGED <<disk, staged, trees, head, snapshot, proc>>
    BY <1>2 DEF vars
  <2>2. \A p \in Procs : Working(p)'
    BY <1>2, <2>1 DEF TypeInv, Working
  <2> QED
    BY <1>2, <2>1, <2>2 DEF TypeInv, Worktree
<1> QED
  BY <1>1, <1>2, InitTypes, PTL DEF Spec

\* Worktree and commits are sets of files, none of which is also a directory,
\* whatever is staged, imported, moved, promoted or restored in between, and
\* whoever writes: _reject_conflicting_adds, validate_tree_node and the checks
\* of mv keep what is not a set of files out.
THEOREM TypeCorrect == Spec => []TypeOK
BY TypeInvariance, TypeInvImplies, PTL
-----------------------------------------------------------------------------
(* What is staged is what was asked for.                                   *)

\* The process is in an operation on the staging area.
Engaged(p) == proc[p].pc # "idle" /\ proc[p].op.kind \in StagingKinds

\* While no two such operations overlap, the one under way has what is staged.
StageInv ==
    /\ TypeInv
    /\ ~overlapped =>
         /\ staged = intent
         /\ \A p \in Procs : Engaged(p) =>
              /\ proc[p].loaded = staged
              /\ \A q \in Procs : Engaged(q) => q = p

LEMMA IdleNotEngaged ==
    ASSUME NEW p \in Procs, proc'[p] = Idle
    PROVE  ~Engaged(p)'
BY IdleIs DEF Engaged

\* Steps that leave the staging area alone, and engage nobody.
LEMMA StageStays ==
    ASSUME StageInv, TypeInv', UNCHANGED <<area, overlapped>>,
           \A p \in Procs : Engaged(p)' => Engaged(p) /\ proc'[p].loaded = proc[p].loaded
    PROVE  StageInv'
BY DEF StageInv, area

\* The others of a step of p.
LEMMA OthersStay ==
    ASSUME TypeInv, NEW p \in Procs, NEW rec, proc' = [proc EXCEPT ![p] = rec]
    PROVE  /\ proc'[p] = rec
           /\ \A q \in Procs \ {p} : proc'[q] = proc[q] /\ (Engaged(q)' <=> Engaged(q))
BY DEF TypeInv, Engaged

LEMMA StageDone ==
    ASSUME StageInv, TypeInv', NEW p \in Procs, Done(p), UNCHANGED <<area, overlapped>>
    PROVE  StageInv'
<1>1. proc'[p] = Idle /\ \A q \in Procs \ {p} : proc'[q] = proc[q] /\ (Engaged(q)' <=> Engaged(q))
  BY OthersStay DEF Done, StageInv
<1> QED
  BY <1>1, IdleNotEngaged, StageStays

\* A step of p that goes on with its operation.
LEMMA StageGoesOn ==
    ASSUME StageInv, TypeInv', NEW p \in Procs, NEW rec,
           proc' = [proc EXCEPT ![p] = rec], proc[p].pc # "idle",
           rec.op = proc[p].op, rec.loaded = proc[p].loaded,
           UNCHANGED <<area, overlapped>>
    PROVE  StageInv'
<1>1. proc'[p] = rec /\ \A q \in Procs \ {p} : proc'[q] = proc[q] /\ (Engaged(q)' <=> Engaged(q))
  BY OthersStay DEF StageInv
<1>2. Engaged(p)' => Engaged(p) /\ proc'[p].loaded = proc[p].loaded
  BY <1>1 DEF Engaged
<1> QED
  BY <1>1, <1>2, StageStays

LEMMA StageBegin ==
    ASSUME StageInv, TypeInv', NEW p \in Procs, Begin(p)
    PROVE  StageInv'
<1>1. PICK op \in Ops[p] :
        /\ proc' = [proc EXCEPT ![p] = Begun(op)]
        /\ overlapped' = (overlapped \/ /\ op.kind \in StagingKinds
                                        /\ \E q \in Procs : /\ proc[q].pc # "idle"
                                                            /\ proc[q].op.kind \in StagingKinds)
  BY BeginDoes
<1>2. UNCHANGED <<staged, intent>> /\ proc[p].pc = "idle"
  BY BeginDoes DEF area
<1>3. TypeInv /\ op \in OpSet
  BY ProcOps DEF StageInv
<1>4. /\ proc'[p].op = op
      /\ op.kind \in StagingKinds => proc'[p].loaded = staged
  <2>1. proc'[p] = Begun(op)
    BY <1>1, <1>3, OthersStay
  <2> QED
    BY <1>3, <2>1, BegunIs
<1>5. \A q \in Procs \ {p} : proc'[q] = proc[q] /\ (Engaged(q)' <=> Engaged(q))
  BY <1>1, <1>3, OthersStay
<1>6. ~Engaged(p)
  BY <1>2 DEF Engaged
<1>7. ~overlapped' => ~overlapped /\ (op.kind \in StagingKinds => \A q \in Procs : ~Engaged(q))
  BY <1>1 DEF Engaged
<1>8. Engaged(p)' => op.kind \in StagingKinds
  BY <1>4 DEF Engaged
<1> QED
  BY <1>2, <1>4, <1>5, <1>6, <1>7, <1>8 DEF StageInv

LEMMA StageStage ==
    ASSUME StageInv, TypeInv', NEW p \in Procs, Stage(p)
    PROVE  StageInv'
<1>1. Done(p) /\ overlapped' = overlapped /\ proc[p].pc = "stage" /\ TypeInv /\ Working(p)
  BY DEF Stage, StageInv, TypeInv
<1>2. Engaged(p)
  BY <1>1 DEF Working, Engaged, StagingKinds
<1>3. proc'[p] = Idle /\ \A q \in Procs \ {p} : proc'[q] = proc[q] /\ (Engaged(q)' <=> Engaged(q))
  BY <1>1, OthersStay DEF Done
<1>4. CASE UNCHANGED area
  BY <1>1, <1>4, StageDone
<1>5. CASE ~UNCHANGED area
  <2> DEFINE own == StageChanges(proc[p].op, FilesAt(head))
  <2>1. staged' = Over(own, proc[p].loaded) /\ intent' = Over(own, intent)
    BY <1>5 DEF Stage
  <2> HIDE DEF own
  <2>2. ~overlapped => proc[p].loaded = intent /\ \A q \in Procs : Engaged(q) => q = p
    BY <1>2 DEF StageInv
  <2>3. ~overlapped => staged' = intent'
    BY <2>1, <2>2
  <2>4. ~Engaged(p)'
    BY <1>3, IdleNotEngaged
  <2> QED
    BY <1>1, <1>3, <2>2, <2>3, <2>4 DEF StageInv
<1> QED
  BY <1>4, <1>5

LEMMA StageClear ==
    ASSUME StageInv, TypeInv', NEW p \in Procs, Clear(p)
    PROVE  StageInv'
<1>1. Done(p) /\ overlapped' = overlapped /\ proc[p].pc = "clear" /\ TypeInv /\ Working(p)
  BY DEF Clear, StageInv, TypeInv
<1>2. Engaged(p)
  BY <1>1 DEF Working, Engaged, StagingKinds
<1>3. proc'[p] = Idle /\ \A q \in Procs \ {p} : proc'[q] = proc[q] /\ (Engaged(q)' <=> Engaged(q))
  BY <1>1, OthersStay DEF Done
<1> DEFINE loaded == proc[p].loaded
<1>4. staged' = NoFiles /\ intent' = Without(intent, {q \in DOMAIN loaded : At(intent, q) = loaded[q]})
  BY DEF Clear
<1>5. ~overlapped => loaded = intent /\ \A q \in Procs : Engaged(q) => q = p
  BY <1>2 DEF StageInv
<1>6. ~overlapped => intent' = NoFiles
  <2> SUFFICES ASSUME ~overlapped
               PROVE  intent' = NoFiles
    OBVIOUS
  <2>1. {q \in DOMAIN intent : At(intent, q) = intent[q]} = DOMAIN intent
    BY DEF At
  <2>2. intent' = Without(intent, DOMAIN intent)
    BY <1>4, <1>5, <2>1
  <2>3. DOMAIN intent \ DOMAIN intent = {}
    OBVIOUS
  <2> QED
    BY <2>2, <2>3 DEF Without, Only, NoFiles
<1>7. ~Engaged(p)'
  BY <1>3, IdleNotEngaged
<1> QED
  BY <1>1, <1>3, <1>4, <1>5, <1>6, <1>7 DEF StageInv

LEMMA StageMaterialize ==
    ASSUME StageInv, TypeInv', NEW p \in Procs, Materialize(p)
    PROVE  StageInv'
<1>1. UNCHANGED <<area, overlapped>> /\ proc[p].pc # "idle" /\ TypeInv
  BY MaterializeDoes DEF StageInv
<1>2. CASE Done(p)
  BY <1>1, <1>2, StageDone
<1>3. CASE ~Done(p)
  <2> DEFINE rec == [proc[p] EXCEPT !.pc = "build", !.entries = Entries(proc[p].loaded),
                       !.tries = IF proc[p].op.staged THEN StagedRetries ELSE 1]
  <2>1. proc' = [proc EXCEPT ![p] = rec] /\ rec.op = proc[p].op /\ rec.loaded = proc[p].loaded
    BY <1>1, <1>3, MaterializeDoes
  <2> HIDE DEF rec
  <2> QED
    BY <1>1, <2>1, StageGoesOn
<1> QED
  BY <1>2, <1>3

LEMMA StageBuild ==
    ASSUME StageInv, TypeInv', NEW p \in Procs, Build(p)
    PROVE  StageInv'
<1>1. UNCHANGED <<area, overlapped>> /\ proc[p].pc # "idle" /\ TypeInv
  BY BuildDoes DEF StageInv
<1>2. CASE Done(p)
  BY <1>1, <1>2, StageDone
<1>3. CASE ~Done(p)
  BY <1>1, <1>3, BuildDoes, StageGoesOn
<1> QED
  BY <1>2, <1>3

LEMMA StageCas ==
    ASSUME StageInv, TypeInv', NEW p \in Procs, Cas(p)
    PROVE  StageInv'
<1>1. UNCHANGED <<area, overlapped>> /\ proc[p].pc # "idle" /\ TypeInv
  BY CasDoes DEF StageInv
<1>2. CASE Done(p)
  BY <1>1, <1>2, StageDone
<1>3. CASE ~Done(p)
  BY <1>1, <1>3, CasDoes, StageGoesOn
<1> QED
  BY <1>2, <1>3

LEMMA StageLook ==
    ASSUME StageInv, TypeInv', NEW p \in Procs, Look(p)
    PROVE  StageInv'
<1>1. UNCHANGED <<area, overlapped>> /\ proc[p].pc # "idle" /\ TypeInv /\ proc[p] \in Records
  BY LookDoes DEF StageInv, TypeInv
<1>2. CASE Done(p)
  BY <1>1, <1>2, StageDone
<1>3. CASE \E path \in DOMAIN proc[p].result : proc' = [proc EXCEPT ![p] = Skip(p, path)]
  BY <1>1, <1>3, SkipIs, StageGoesOn
<1>4. CASE ~Done(p) /\ ~ \E path \in DOMAIN proc[p].result : proc' = [proc EXCEPT ![p] = Skip(p, path)]
  BY ZenonT(60), <1>1, <1>4, LookDoes, StageGoesOn
<1> QED
  BY <1>2, <1>3, <1>4

\* A changed source disturbs every process, and ends none.
LEMMA DisturbedGoesOn ==
    ASSUME TypeInv, NEW q \in Procs, proc'[q] = Disturbed[q]
    PROVE  /\ proc'[q].pc = proc[q].pc /\ proc'[q].op = proc[q].op
           /\ proc'[q].loaded = proc[q].loaded /\ proc'[q].entries = proc[q].entries
           /\ proc'[q].parent = proc[q].parent /\ proc'[q].result = proc[q].result
           /\ proc'[q].was = proc[q].was
           /\ proc[q].pc # "idle" => ~proc'[q].calm
<1>1. proc[q] \in Records
  BY DEF TypeInv
<1>2. CASE proc'[q] = proc[q] /\ proc[q] = Idle
  BY <1>2, IdleIs
<1>3. CASE proc'[q] = [proc[q] EXCEPT !.calm = FALSE]
  BY <1>1, <1>3 DEF Records
<1> QED
  BY <1>2, <1>3, DisturbedIs

LEMMA StagePut ==
    ASSUME StageInv, TypeInv', NEW p \in Procs, Put(p)
    PROVE  StageInv'
<1>1. UNCHANGED <<area, overlapped>> /\ proc[p].pc # "idle" /\ TypeInv /\ proc[p] \in Records
  BY PutDoes DEF StageInv, TypeInv
<1>2. CASE Done(p)
  BY <1>1, <1>2, StageDone
<1>3. CASE ~Done(p)
  <2>1. PICK path : proc' = [Disturbed EXCEPT ![p] = Skip(p, path)]
    BY <1>1, <1>3, PutDoes
  <2>2. Disturbed \in [Procs -> Records]
    BY <1>1, DisturbedIs
  <2>3. proc'[p] = Skip(p, path) /\ \A q \in Procs \ {p} : proc'[q] = Disturbed[q]
    BY <2>1, <2>2
  <2>4. proc'[p].op = proc[p].op /\ proc'[p].loaded = proc[p].loaded
    <3>1. Skip(p, path).op = proc[p].op /\ Skip(p, path).loaded = proc[p].loaded
      BY <1>1, SkipIs
    <3> QED
      BY <2>3, <3>1
  <2>5. \A q \in Procs \ {p} : /\ proc'[q].pc = proc[q].pc /\ proc'[q].op = proc[q].op
                               /\ proc'[q].loaded = proc[q].loaded
    BY <1>1, <2>3, DisturbedGoesOn
  <2>6. \A q \in Procs : Engaged(q)' => Engaged(q) /\ proc'[q].loaded = proc[q].loaded
    BY <1>1, <2>4, <2>5 DEF Engaged
  <2> QED
    BY <1>1, <2>6, StageStays
<1> QED
  BY <1>2, <1>3

LEMMA StageWriteSource ==
    ASSUME StageInv, TypeInv', WriteSource
    PROVE  StageInv'
<1>1. UNCHANGED <<area, overlapped>> /\ proc' = Disturbed /\ TypeInv
  BY DEF WriteSource, StageInv
<1>2. \A q \in Procs : /\ proc'[q].pc = proc[q].pc /\ proc'[q].op = proc[q].op
                       /\ proc'[q].loaded = proc[q].loaded
  BY <1>1, DisturbedGoesOn
<1>3. \A q \in Procs : Engaged(q)' => Engaged(q) /\ proc'[q].loaded = proc[q].loaded
  BY <1>2 DEF Engaged
<1> QED
  BY <1>1, <1>3, StageStays

LEMMA StageInvariance == Spec => []StageInv
<1>1. ASSUME Init
      PROVE  StageInv
  <2>1. TypeInv /\ staged = intent /\ \A p \in Procs : proc[p].pc = "idle"
    BY <1>1, InitTypes, IdleIs DEF Init
  <2> QED
    BY <2>1 DEF StageInv, Engaged
<1>2. ASSUME StageInv, TypeInv', Next
      PROVE  StageInv'
  <2>1. CASE Peer
    <3>1. UNCHANGED <<area, proc, overlapped>>
      BY <2>1 DEF Peer
    <3>2. \A q \in Procs : Engaged(q)' => Engaged(q) /\ proc'[q].loaded = proc[q].loaded
      BY <3>1 DEF Engaged
    <3> QED
      BY <1>2, <3>1, <3>2, StageStays
  <2>2. CASE WriteSource
    BY <1>2, <2>2, StageWriteSource
  <2>3. ASSUME NEW p \in Procs, Crash(p)
        PROVE  StageInv'
    BY <1>2, <2>3, StageDone DEF Crash
  <2>4. ASSUME NEW p \in Procs,
               \/ Begin(p) \/ Stage(p) \/ Materialize(p) \/ Build(p) \/ Cas(p) \/ Clear(p)
               \/ Look(p) \/ Put(p)
        PROVE  StageInv'
    BY <1>2, <2>4, StageBegin, StageStage, StageMaterialize, StageBuild, StageCas, StageClear,
       StageLook, StagePut
  <2> QED
    BY <1>2, <2>1, <2>2, <2>3, <2>4 DEF Next
<1>3. ASSUME StageInv, TypeInv', UNCHANGED vars
      PROVE  StageInv'
  <2>1. UNCHANGED <<area, overlapped, proc>>
    BY <1>3 DEF vars, area
  <2>2. \A q \in Procs : Engaged(q)' => Engaged(q) /\ proc'[q].loaded = proc[q].loaded
    BY <2>1 DEF Engaged
  <2> QED
    BY <1>3, <2>1, <2>2, StageStays
<1> QED
  BY <1>1, <1>2, <1>3, TypeInvariance, PTL DEF Spec

\* Unless operations of two processes on the staging area overlap, what
\* load reads and save writes (staging.py) is what the operations that
\* reported success staged and no commit has taken: failures, retries and
\* deaths of add, rm, mv and commit lose nothing and add nothing.
THEOREM StagedWasAskedFor == Spec => []StagedIsIntent
<1>1. StageInv => StagedIsIntent
  BY DEF StageInv, StagedIsIntent
<1> QED
  BY <1>1, StageInvariance, PTL
-----------------------------------------------------------------------------
(* What is published is what the operation makes of the head.              *)

\* Entries and results are what they were while no source changes; those of
\* a move are in any case.
LEMMA SameEntries ==
    ASSUME disk' = disk, NEW changes
    PROVE  Entries(changes)' = Entries(changes)
BY DEF Entries, EntryFromChange, EntryFromSource, Exists, Worktree, Only

LEMMA SameRaises ==
    ASSUME disk' = disk, NEW op, NEW files, NEW entries, NEW removed
    PROVE  Raises(op, files, entries, removed)' <=> Raises(op, files, entries, removed)
BY DEF Raises, Clash, Imported, Listed, EntryFromSource, Worktree, Only

LEMMA SameResult ==
    ASSUME disk' = disk, NEW op, NEW files, NEW entries, NEW removed
    PROVE  Result(op, files, entries, removed)' = Result(op, files, entries, removed)
BY DEF Result, WorkEntries, Imported, Listed, EntryFromSource, Promoted, Worktree, Only

LEMMA SameMove ==
    ASSUME NEW op, NEW files, NEW entries, NEW removed, op.kind = "move"
    PROVE  /\ Raises(op, files, entries, removed)' <=> Raises(op, files, entries, removed)
           /\ Result(op, files, entries, removed)' = Result(op, files, entries, removed)
BY DEF Raises, Result
\* commit has the entries of the changes it loaded, unless a source has
\* changed since; the others have neither changes nor entries.
Ready(p) ==
    \A loaded :
        /\ proc[p].pc \in {"build", "cas"}
        /\ loaded = proc[p].loaded
        => /\ proc[p].op.kind # "commit" => loaded = NoFiles /\ proc[p].entries = NoFiles
           /\ proc[p].op.kind = "commit" /\ proc[p].calm => proc[p].entries = Entries(loaded)

\* What is about to be published is what the operation makes of its parent.
Prepared(p) ==
    \A op, files, entries, removed :
        /\ proc[p].pc = "cas"
        /\ proc[p].calm \/ op.kind = "move"
        /\ op = proc[p].op
        /\ files = FilesAt(proc[p].parent)
        /\ entries = proc[p].entries
        /\ removed = RemovesOf(proc[p].loaded)
        => /\ ~Raises(op, files, entries, removed)
           /\ proc[p].result = Result(op, files, entries, removed)

\* A promotion keeps the paths, and the bytes of sources that have not changed.
Kept(old, new, calm) ==
    /\ DOMAIN new = DOMAIN old /\ Pointers(new) = {}
    /\ \A q \in DOMAIN old :
          \/ new[q] = old[q]
          \/ /\ old[q].mode = "pointer"
             /\ \/ new[q] = Blob(old[q].tag)
                \/ old[q].tag # disk[old[q].source]
                \/ ~calm

KeepsBytes(p) ==
    proc[p].pc = "cas" /\ proc[p].op.kind = "promote" =>
        \A old, new, calm :
            old = FilesAt(proc[p].parent) /\ new = proc[p].result /\ calm = proc[p].calm
              => Kept(old, new, calm)

BuiltInv ==
    /\ StageInv
    /\ \A p \in Procs : Ready(p) /\ Prepared(p) /\ KeepsBytes(p)

\* The commits there were stay what they are.
TreesStay == \A id \in 0 .. head : (IF id = 0 THEN NoFiles ELSE trees'[id]) = FilesAt(id)

LEMMA TreesThatStay ==
    ASSUME TypeInv, \/ trees' = trees
                    \/ \E f \in FileSets : trees' = Append(trees, f)
    PROVE  TreesStay
<1>1. trees \in Seq(FileSets) /\ head = Len(trees)
  BY DEF TypeInv
<1>2. CASE trees' = trees
  BY <1>2 DEF TreesStay, FilesAt
<1>3. CASE \E f \in FileSets : trees' = Append(trees, f)
  BY <1>1, <1>3, FilesAtStay DEF TreesStay
<1> QED
  BY <1>2, <1>3

\* A process that the step does not move, or at most disturbs, keeps what it
\* has built.
LEMMA BuiltStays ==
    ASSUME BuiltInv, NEW p \in Procs, TreesStay,
           proc'[p].pc = proc[p].pc, proc'[p].op = proc[p].op,
           proc'[p].loaded = proc[p].loaded, proc'[p].entries = proc[p].entries,
           proc'[p].parent = proc[p].parent, proc'[p].result = proc[p].result,
           \/ disk' = disk /\ proc'[p].calm = proc[p].calm
           \/ proc[p].pc # "idle" => proc'[p].calm = FALSE
    PROVE  Ready(p)' /\ Prepared(p)' /\ KeepsBytes(p)'
<1>1. Ready(p) /\ Prepared(p) /\ KeepsBytes(p) /\ Working(p)
  BY DEF BuiltInv, StageInv, TypeInv
<1>2. proc[p].pc = "cas" =>
        (IF proc[p].parent = 0 THEN NoFiles ELSE trees'[proc[p].parent]) = FilesAt(proc[p].parent)
  BY <1>1 DEF Working, TreesStay
<1>3. Ready(p)'
  <2>1. CASE disk' = disk /\ proc'[p].calm = proc[p].calm
    BY <1>1, <2>1, SameEntries DEF Ready
  <2>2. CASE proc[p].pc # "idle" => proc'[p].calm = FALSE
    BY <1>1, <2>2 DEF Ready
  <2> QED
    BY <2>1, <2>2
<1>4. Prepared(p)'
  <2> SUFFICES ASSUME NEW op, NEW files, NEW entries, NEW removed,
                      proc'[p].pc = "cas", proc'[p].calm \/ op.kind = "move",
                      op = proc'[p].op,
                      files = IF proc'[p].parent = 0 THEN NoFiles ELSE trees'[proc'[p].parent],
                      entries = proc'[p].entries, removed = RemovesOf(proc'[p].loaded)
               PROVE  /\ ~Raises(op, files, entries, removed)'
                      /\ proc'[p].result = Result(op, files, entries, removed)'
    BY DEF Prepared, FilesAt, RemovesOf
  <2>1. files = FilesAt(proc[p].parent)
    BY <1>2
  <2>2. /\ removed = RemovesOf(proc[p].loaded) /\ entries = proc[p].entries
        /\ op = proc[p].op /\ proc[p].pc = "cas"
    OBVIOUS
  <2>3. CASE op.kind = "move"
    <3>1. /\ ~Raises(op, files, entries, removed)
          /\ proc[p].result = Result(op, files, entries, removed)
      BY <1>1, <2>1, <2>2, <2>3 DEF Prepared
    <3> QED
      BY <2>3, <3>1, SameMove
  <2>4. CASE op.kind # "move"
    <3>1. disk' = disk /\ proc[p].calm
      BY <2>2, <2>4
    <3>2. /\ ~Raises(op, files, entries, removed)
          /\ proc[p].result = Result(op, files, entries, removed)
      BY <1>1, <2>1, <2>2, <3>1 DEF Prepared
    <3> QED
      BY <3>1, <3>2, SameRaises, SameResult
  <2> QED
    BY <2>3, <2>4
<1>5. KeepsBytes(p)'
  <2> SUFFICES ASSUME proc[p].pc = "cas", proc[p].op.kind = "promote",
                      NEW old, NEW new, NEW calm,
                      old = IF proc'[p].parent = 0 THEN NoFiles ELSE trees'[proc'[p].parent],
                      new = proc'[p].result, calm = proc'[p].calm
               PROVE  Kept(old, new, calm)'
    BY DEF KeepsBytes, FilesAt
  <2>1. old = FilesAt(proc[p].parent)
    BY <1>2
  <2>2. Kept(old, new, proc[p].calm)
    BY <1>1, <2>1 DEF KeepsBytes
  <2> QED
    BY <2>2 DEF Kept, Pointers
<1> QED
  BY <1>3, <1>4, <1>5

LEMMA BuiltIdle ==
    ASSUME NEW p \in Procs, proc'[p].pc \notin {"build", "cas"}
    PROVE  Ready(p)' /\ Prepared(p)' /\ KeepsBytes(p)'
BY DEF Ready, Prepared, KeepsBytes

\* A step of p that changes no source leaves the others what they built.
LEMMA BuiltOthers ==
    ASSUME BuiltInv, StageInv', NEW p \in Procs, NEW rec, proc' = [proc EXCEPT ![p] = rec],
           disk' = disk, TreesStay, Ready(p)', Prepared(p)', KeepsBytes(p)'
    PROVE  BuiltInv'
<1>1. TypeInv
  BY DEF BuiltInv, StageInv
<1>2. \A q \in Procs \ {p} : proc'[q] = proc[q]
  BY <1>1, OthersStay
<1>3. \A q \in Procs \ {p} : Ready(q)' /\ Prepared(q)' /\ KeepsBytes(q)'
  BY <1>2, BuiltStays
<1> QED
  BY <1>3 DEF BuiltInv

LEMMA BuiltDone ==
    ASSUME BuiltInv, StageInv', NEW p \in Procs, Done(p), disk' = disk, TreesStay
    PROVE  BuiltInv'
<1>1. proc'[p].pc = "idle" /\ proc' = [proc EXCEPT ![p] = Idle]
  BY OthersStay, IdleIs DEF Done, BuiltInv, StageInv
<1> QED
  BY <1>1, BuiltIdle, BuiltOthers
LEMMA PromoteKeeps ==
    ASSUME disk \in Disks, NEW files \in FileSets, NEW calm
    PROVE  Kept(files, FlatSplice(files, Promoted(files), {}), calm)
<1> DEFINE adds == Promoted(files)
           new == FlatSplice(files, adds, {})
           left == Spared(files, adds, {})
<1>1. /\ DOMAIN adds = Pointers(files)
      /\ \A p \in Pointers(files) : adds[p] = Blob(disk[files[p].source])
  BY DEF Promoted
<1> HIDE DEF adds
<1>2. /\ DOMAIN new = DOMAIN adds \union left
      /\ \A p \in DOMAIN adds : new[p] = adds[p]
      /\ \A p \in left \ DOMAIN adds : new[p] = files[p]
  BY ZenonT(60), SpliceIs
<1>3. \A p \in DOMAIN files : p \in Path /\ files[p] \in EntrySet
  BY FileSetsAre, PathsAre DEF IsFiles
<1>4. left = DOMAIN files \ Pointers(files)
  <2>1. \A p \in Pointers(files) : p \in DOMAIN files /\ Within(p, p)
    BY <1>3, WithinItself DEF Pointers
  <2>2. \A p, q \in DOMAIN files : Within(p, q) => p = q
    BY FileSetsAre DEF IsFiles, PrefixFree
  <2>3. \A p \in DOMAIN files : ~PathIsRemoved(p, {})
    BY DEF PathIsRemoved
  <2> QED
    BY <1>1, <2>1, <2>2, <2>3 DEF Spared
<1> HIDE DEF new, left
<1>5. DOMAIN new = DOMAIN files
  BY <1>1, <1>2, <1>4 DEF Pointers
<1>6. ASSUME NEW p \in Pointers(files)
      PROVE  new[p] = Blob(disk[files[p].source]) /\ files[p].mode = "pointer"
  BY <1>1, <1>2 DEF Pointers
<1>7. \A p \in DOMAIN files \ Pointers(files) : new[p] = files[p]
  BY <1>1, <1>2, <1>4
<1>8. Pointers(new) = {}
  <2>1. ASSUME NEW p \in Pointers(files)
        PROVE  new[p].mode # "pointer"
    <3>1. new[p] = Blob(disk[files[p].source])
      BY <1>6
    <3>2. \A c : Blob(c).mode = "content"
      BY DEF Blob
    <3> QED
      BY <3>1, <3>2
  <2>2. \A p \in DOMAIN files \ Pointers(files) : new[p].mode # "pointer"
    BY <1>7 DEF Pointers
  <2> QED
    BY <1>5, <2>1, <2>2 DEF Pointers
<1>9. \A q \in DOMAIN files :
          \/ new[q] = files[q]
          \/ /\ files[q].mode = "pointer"
             /\ \/ new[q] = Blob(files[q].tag)
                \/ files[q].tag # disk[files[q].source]
                \/ ~calm
  BY <1>6, <1>7
<1> QED
  BY <1>5, <1>8, <1>9 DEF Kept, new, adds

LEMMA BuiltBegin ==
    ASSUME BuiltInv, StageInv', NEW p \in Procs, Begin(p)
    PROVE  BuiltInv'
<1>1. PICK op \in Ops[p] : proc' = [proc EXCEPT ![p] = Begun(op)]
  BY BeginDoes
<1>2. disk' = disk /\ trees' = trees /\ TypeInv /\ op \in OpSet
  BY BeginDoes, ProcOps DEF store, BuiltInv, StageInv
<1>3. TreesStay
  BY <1>2, TreesThatStay
<1>4. proc'[p] = Begun(op)
  BY <1>1, <1>2, OthersStay
<1>5. /\ proc'[p].pc = FirstPhase(op) /\ proc'[p].op = op
      /\ proc'[p].loaded = (IF op.kind \in StagingKinds THEN staged ELSE NoFiles)
      /\ proc'[p].entries = (IF op.kind = "restore" THEN Restored(op) ELSE NoFiles)
  BY ZenonT(60), <1>2, <1>4, BegunIs
<1>6. /\ FirstPhase(op) # "cas"
      /\ FirstPhase(op) = "build" =>
           op.kind \notin StagingKinds /\ op.kind # "restore" /\ op.kind # "commit"
  BY <1>2, OpKinds DEF FirstPhase, StagingKinds
<1>7. Ready(p)' /\ Prepared(p)' /\ KeepsBytes(p)'
  BY <1>5, <1>6 DEF Ready, Prepared, KeepsBytes
<1> HIDE DEF Begun
<1> QED
  BY <1>1, <1>2, <1>3, <1>7, BuiltOthers

LEMMA BuiltMaterialize ==
    ASSUME BuiltInv, StageInv', NEW p \in Procs, Materialize(p)
    PROVE  BuiltInv'
<1>1. disk' = disk /\ trees' = trees /\ TypeInv /\ Working(p) /\ proc[p].pc = "entries"
  BY MaterializeDoes DEF store, BuiltInv, StageInv, TypeInv
<1>2. TreesStay
  BY <1>1, TreesThatStay
<1>3. CASE Done(p)
  BY <1>1, <1>2, <1>3, BuiltDone
<1>4. CASE ~Done(p)
  <2> DEFINE rec == [proc[p] EXCEPT !.pc = "build", !.entries = Entries(proc[p].loaded),
                       !.tries = IF proc[p].op.staged THEN StagedRetries ELSE 1]
  <2>1. /\ proc' = [proc EXCEPT ![p] = rec]
        /\ rec.pc = "build" /\ rec.entries = Entries(proc[p].loaded)
        /\ rec.op = proc[p].op /\ rec.loaded = proc[p].loaded
    BY <1>1, <1>4, MaterializeDoes
  <2> HIDE DEF rec
  <2>2. proc'[p] = rec /\ proc[p].op.kind = "commit"
    BY <1>1, <2>1, OthersStay DEF Working
  <2>3. Ready(p)'
    <3> SUFFICES ASSUME NEW loaded, loaded = proc'[p].loaded
                 PROVE  proc'[p].entries = Entries(loaded)'
      BY <2>1, <2>2 DEF Ready
    <3>1. proc'[p].entries = Entries(loaded)
      BY <2>1, <2>2
    <3> QED
      BY <1>1, <3>1, SameEntries
  <2>4. Prepared(p)' /\ KeepsBytes(p)'
    BY <2>1, <2>2 DEF Prepared, KeepsBytes
  <2> QED
    BY <1>1, <1>2, <2>1, <2>3, <2>4, BuiltOthers
<1> QED
  BY <1>3, <1>4

LEMMA BuiltBuild ==
    ASSUME BuiltInv, StageInv', NEW p \in Procs, Build(p)
    PROVE  BuiltInv'
<1>1. /\ disk' = disk /\ trees' = trees /\ TypeInv /\ proc[p].pc = "build"
      /\ Ready(p) /\ Parent(p) \in 0 .. head /\ disk \in Disks /\ Working(p)
  BY BuildDoes DEF BuiltInv, StageInv, TypeInv
<1>2. TreesStay
  BY <1>1, TreesThatStay
<1>3. CASE Done(p)
  BY <1>1, <1>2, <1>3, BuiltDone
<1>4. CASE ~Done(p)
  <2> DEFINE r == proc[p]
             rec == [r EXCEPT !.pc = "cas", !.parent = Parent(p),
                       !.result = Result(r.op, FilesAt(Parent(p)), r.entries, RemovesOf(r.loaded))]
  <2>1. /\ ~Raises(r.op, FilesAt(Parent(p)), r.entries, RemovesOf(r.loaded))
        /\ proc' = [proc EXCEPT ![p] = rec]
        /\ rec.pc = "cas" /\ rec.parent = Parent(p)
        /\ rec.result = Result(r.op, FilesAt(Parent(p)), r.entries, RemovesOf(r.loaded))
        /\ rec.op = r.op /\ rec.loaded = r.loaded /\ rec.entries = r.entries
        /\ rec.calm = r.calm
    BY <1>1, <1>4, BuildDoes
  <2> HIDE DEF rec
  <2>2. proc'[p] = rec
    BY <1>1, <2>1, OthersStay
  <2>3. (IF proc'[p].parent = 0 THEN NoFiles ELSE trees'[proc'[p].parent]) = FilesAt(Parent(p))
    BY <1>1, <2>1, <2>2 DEF FilesAt
  <2>4. Ready(p)'
    <3> SUFFICES ASSUME NEW loaded, loaded = proc'[p].loaded
                 PROVE  /\ proc'[p].op.kind # "commit" => loaded = NoFiles /\ proc'[p].entries = NoFiles
                        /\ proc'[p].op.kind = "commit" /\ proc'[p].calm =>
                             proc'[p].entries = Entries(loaded)'
      BY DEF Ready
    <3>1. /\ loaded = r.loaded /\ proc'[p].op = r.op /\ proc'[p].calm = r.calm
          /\ proc'[p].entries = r.entries
      BY <2>1, <2>2
    <3>2. /\ r.op.kind # "commit" => loaded = NoFiles /\ r.entries = NoFiles
          /\ r.op.kind = "commit" /\ r.calm => r.entries = Entries(loaded)
      BY <1>1, <3>1 DEF Ready
    <3> QED
      BY <1>1, <3>1, <3>2, SameEntries
  <2>5. Prepared(p)'
    <3> SUFFICES ASSUME NEW op, NEW files, NEW entries, NEW removed,
                        op = proc'[p].op,
                        files = IF proc'[p].parent = 0 THEN NoFiles ELSE trees'[proc'[p].parent],
                        entries = proc'[p].entries, removed = RemovesOf(proc'[p].loaded)
                 PROVE  /\ ~Raises(op, files, entries, removed)'
                        /\ proc'[p].result = Result(op, files, entries, removed)'
      BY DEF Prepared, FilesAt, RemovesOf
    <3>1. /\ op = r.op /\ files = FilesAt(Parent(p)) /\ entries = r.entries
          /\ removed = RemovesOf(r.loaded)
      BY <2>1, <2>2, <2>3
    <3>2. ~Raises(op, files, entries, removed)
      BY <2>1, <3>1
    <3>3. proc'[p].result = Result(op, files, entries, removed)
      BY <2>1, <2>2, <3>1
    <3> QED
      BY <1>1, <3>2, <3>3, SameRaises, SameResult
  <2>6. KeepsBytes(p)'
    <3> SUFFICES ASSUME r.op.kind = "promote", NEW old, NEW new, NEW calm,
                        old = IF proc'[p].parent = 0 THEN NoFiles ELSE trees'[proc'[p].parent],
                        new = proc'[p].result
                 PROVE  Kept(old, new, calm)'
      BY <2>1, <2>2 DEF KeepsBytes, FilesAt
    <3>1. old = FilesAt(Parent(p)) /\ old \in FileSets
      BY <1>1, <2>3, HeadIs
    <3>2. new = FlatSplice(old, Promoted(old), {})
      BY <2>1, <2>2, <3>1 DEF Result
    <3>3. Kept(old, new, calm)
      BY <1>1, <3>1, <3>2, PromoteKeeps
    <3> QED
      BY <1>1, <3>3 DEF Kept, Pointers
  <2> QED
    BY <1>1, <1>2, <2>1, <2>4, <2>5, <2>6, BuiltOthers
<1> QED
  BY <1>3, <1>4

LEMMA BuiltCas ==
    ASSUME BuiltInv, StageInv', NEW p \in Procs, Cas(p)
    PROVE  BuiltInv'
<1> DEFINE r == proc[p]
<1>1. /\ disk' = disk /\ TypeInv /\ r.pc = "cas" /\ Ready(p)
      /\ \/ trees' = trees
         \/ \E f \in FileSets : trees' = Append(trees, f)
  BY CasDoes DEF BuiltInv, StageInv
<1>2. TreesStay
  BY <1>1, TreesThatStay
<1>3. CASE Done(p)
  BY <1>1, <1>2, <1>3, BuiltDone
<1>4. CASE ~Done(p) /\ head = r.parent
  <2> DEFINE rec == [r EXCEPT !.pc = "clear"]
  <2>1. proc' = [proc EXCEPT ![p] = rec] /\ rec.pc = "clear"
    BY <1>1, <1>4, CasDoes
  <2> HIDE DEF rec
  <2>2. Ready(p)' /\ Prepared(p)' /\ KeepsBytes(p)'
    BY <1>1, <2>1, OthersStay, BuiltIdle
  <2> QED
    BY <1>1, <1>2, <2>1, <2>2, BuiltOthers
<1>5. CASE ~Done(p) /\ head # r.parent
  <2> DEFINE rec == [r EXCEPT !.pc = "build", !.tries = r.tries - 1]
  <2>1. /\ proc' = [proc EXCEPT ![p] = rec] /\ rec.pc = "build" /\ rec.op = r.op
        /\ rec.loaded = r.loaded /\ rec.entries = r.entries /\ rec.calm = r.calm
    BY <1>1, <1>5, CasDoes
  <2> HIDE DEF rec
  <2>2. proc'[p] = rec
    BY <1>1, <2>1, OthersStay
  <2>3. Ready(p)'
    <3> SUFFICES ASSUME NEW loaded, loaded = proc'[p].loaded
                 PROVE  /\ proc'[p].op.kind # "commit" => loaded = NoFiles /\ proc'[p].entries = NoFiles
                        /\ proc'[p].op.kind = "commit" /\ proc'[p].calm =>
                             proc'[p].entries = Entries(loaded)'
      BY DEF Ready
    <3>1. /\ loaded = r.loaded /\ proc'[p].op = r.op /\ proc'[p].calm = r.calm
          /\ proc'[p].entries = r.entries
      BY <2>1, <2>2
    <3>2. /\ r.op.kind # "commit" => loaded = NoFiles /\ r.entries = NoFiles
          /\ r.op.kind = "commit" /\ r.calm => r.entries = Entries(loaded)
      BY <1>1, <3>1 DEF Ready
    <3> QED
      BY <1>1, <3>1, <3>2, SameEntries
  <2>4. Prepared(p)' /\ KeepsBytes(p)'
    BY <2>1, <2>2 DEF Prepared, KeepsBytes
  <2> QED
    BY <1>1, <1>2, <2>1, <2>3, <2>4, BuiltOthers
<1> QED
  BY <1>3, <1>4, <1>5

LEMMA BuiltLook ==
    ASSUME BuiltInv, StageInv', NEW p \in Procs, Look(p)
    PROVE  BuiltInv'
<1>1. disk' = disk /\ trees' = trees /\ TypeInv /\ proc[p] \in Records
  BY LookDoes DEF store, BuiltInv, StageInv, TypeInv
<1>2. TreesStay
  BY <1>1, TreesThatStay
<1>3. CASE Done(p)
  BY <1>1, <1>2, <1>3, BuiltDone
<1>4. ASSUME NEW rec, proc' = [proc EXCEPT ![p] = rec], rec.pc \in {"look", "put"}
      PROVE  BuiltInv'
  <2>1. proc'[p].pc \notin {"build", "cas"}
    BY <1>1, <1>4, OthersStay
  <2> QED
    BY <1>1, <1>2, <1>4, <2>1, BuiltIdle, BuiltOthers
<1>5. CASE \E path \in DOMAIN proc[p].result : proc' = [proc EXCEPT ![p] = Skip(p, path)]
  BY <1>1, <1>4, <1>5, SkipIs
<1> DEFINE put == [proc[p] EXCEPT !.pc = "put"]
<1>6. CASE proc' = [proc EXCEPT ![p] = put] /\ put.pc = "put"
  BY <1>4, <1>6
<1> QED
  BY <1>1, <1>3, <1>5, <1>6, LookDoes

LEMMA BuiltPut ==
    ASSUME BuiltInv, StageInv', NEW p \in Procs, Put(p)
    PROVE  BuiltInv'
<1>1. trees' = trees /\ TypeInv /\ proc[p] \in Records /\ proc \in [Procs -> Records]
  BY PutDoes DEF store, BuiltInv, StageInv, TypeInv
<1>2. TreesStay
  BY <1>1, TreesThatStay
<1>3. CASE Done(p) /\ disk' = disk
  BY <1>1, <1>2, <1>3, BuiltDone
<1>4. CASE ~(Done(p) /\ disk' = disk)
  <2>1. PICK path : proc' = [Disturbed EXCEPT ![p] = Skip(p, path)]
    BY <1>1, <1>4, PutDoes
  <2>2. Disturbed \in [Procs -> Records]
    BY <1>1, DisturbedIs
  <2>3. proc'[p] = Skip(p, path) /\ \A q \in Procs \ {p} : proc'[q] = Disturbed[q]
    BY <2>1, <2>2
  <2>4. Ready(p)' /\ Prepared(p)' /\ KeepsBytes(p)'
    <3>1. Skip(p, path).pc = "look"
      BY <1>1, SkipIs
    <3> QED
      BY <2>3, <3>1, BuiltIdle
  <2>5. ASSUME NEW q \in Procs \ {p}
        PROVE  Ready(q)' /\ Prepared(q)' /\ KeepsBytes(q)'
    <3>1. /\ proc'[q].pc = proc[q].pc /\ proc'[q].op = proc[q].op
          /\ proc'[q].loaded = proc[q].loaded /\ proc'[q].entries = proc[q].entries
          /\ proc'[q].parent = proc[q].parent /\ proc'[q].result = proc[q].result
          /\ proc[q].pc # "idle" => ~proc'[q].calm
      BY <1>1, <2>3, <2>5, DisturbedGoesOn
    <3>2. proc[q].pc # "idle" => proc'[q].calm = FALSE
      <4>1. proc'[q].calm \in BOOLEAN
        BY <2>2, <2>3, <2>5 DEF Records
      <4> QED
        BY <3>1, <4>1
    <3> QED
      BY <1>2, <2>5, <3>1, <3>2, BuiltStays
  <2> QED
    BY <2>4, <2>5 DEF BuiltInv
<1> QED
  BY <1>3, <1>4

LEMMA BuiltWriteSource ==
    ASSUME BuiltInv, StageInv', WriteSource
    PROVE  BuiltInv'
<1>1. trees' = trees /\ proc' = Disturbed /\ TypeInv
  BY DEF WriteSource, store, BuiltInv, StageInv
<1>2. TreesStay
  BY <1>1, TreesThatStay
<1>3. ASSUME NEW q \in Procs
      PROVE  Ready(q)' /\ Prepared(q)' /\ KeepsBytes(q)'
  <2>1. /\ proc'[q].pc = proc[q].pc /\ proc'[q].op = proc[q].op
        /\ proc'[q].loaded = proc[q].loaded /\ proc'[q].entries = proc[q].entries
        /\ proc'[q].parent = proc[q].parent /\ proc'[q].result = proc[q].result
        /\ proc[q].pc # "idle" => ~proc'[q].calm
    BY <1>1, DisturbedGoesOn
  <2>2. proc'[q].calm \in BOOLEAN
    BY <1>1, DisturbedIs DEF Records
  <2> QED
    BY <1>2, <2>1, <2>2, BuiltStays
<1> QED
  BY <1>3 DEF BuiltInv
LEMMA BuiltInvariance == Spec => []BuiltInv
<1>1. ASSUME Init, StageInv
      PROVE  BuiltInv
  <2>1. \A p \in Procs : proc[p].pc = "idle"
    BY <1>1, IdleIs DEF Init
  <2> QED
    BY <1>1, <2>1 DEF BuiltInv, Ready, Prepared, KeepsBytes
<1>2. ASSUME BuiltInv, StageInv', Next
      PROVE  BuiltInv'
  <2>1. CASE Peer
    <3>1. PICK c \in PeerEdits : /\ trees' = Append(trees, FlatSplice(FilesAt(head), c.adds, c.removed))
                                 /\ UNCHANGED <<disk, proc>>
      BY <2>1 DEF Peer
    <3>2. TypeInv /\ c.adds \in FileSets
      BY <1>2, StagingAssumption, FileSetsAre DEF BuiltInv, StageInv
    <3>3. FlatSplice(FilesAt(head), c.adds, c.removed) \in FileSets
      BY <3>2, HeadIs, SpliceFiles
    <3>4. TreesStay
      BY <3>1, <3>2, <3>3, TreesThatStay
    <3>5. \A q \in Procs : Ready(q)' /\ Prepared(q)' /\ KeepsBytes(q)'
      BY <1>2, <3>1, <3>4, BuiltStays
    <3> QED
      BY <1>2, <3>5 DEF BuiltInv
  <2>2. CASE WriteSource
    BY <1>2, <2>2, BuiltWriteSource
  <2>3. ASSUME NEW p \in Procs, Stage(p) \/ Clear(p) \/ Crash(p)
        PROVE  BuiltInv'
    <3>1. TypeInv
      BY <1>2 DEF BuiltInv, StageInv
    <3>2. Done(p) /\ disk' = disk /\ trees' = trees
      BY <2>3 DEF Stage, Clear, Crash, store
    <3> QED
      BY <1>2, <3>1, <3>2, TreesThatStay, BuiltDone
  <2>4. ASSUME NEW p \in Procs,
               \/ Begin(p) \/ Materialize(p) \/ Build(p) \/ Cas(p) \/ Look(p) \/ Put(p)
        PROVE  BuiltInv'
    BY <1>2, <2>4, BuiltBegin, BuiltMaterialize, BuiltBuild, BuiltCas, BuiltLook, BuiltPut
  <2> QED
    BY <1>2, <2>1, <2>2, <2>3, <2>4 DEF Next
<1>3. ASSUME BuiltInv, StageInv', UNCHANGED vars
      PROVE  BuiltInv'
  <2>1. UNCHANGED <<disk, trees, proc>> /\ TypeInv
    BY <1>3 DEF vars, BuiltInv, StageInv
  <2>2. TreesStay
    BY <2>1, TreesThatStay
  <2>3. \A q \in Procs : Ready(q)' /\ Prepared(q)' /\ KeepsBytes(q)'
    BY <1>3, <2>1, <2>2, BuiltStays
  <2> QED
    BY <1>3, <2>3 DEF BuiltInv
<1> QED
  BY <1>1, <1>2, <1>3, StageInvariance, PTL DEF Spec

\* Only the compare-and-set of p publishes, at its parent, what p built.
LEMMA AppliedIs ==
    ASSUME TypeInv, [Next]_vars, NEW p \in Procs, Applied(p)
    PROVE  /\ Cas(p) /\ proc[p].pc = "cas" /\ head = proc[p].parent
           /\ Published = proc[p].result
<1>1. proc[p].pc = "cas" /\ proc'[p] # proc[p] /\ trees' # trees
  BY DEF Applied
<1>2. ASSUME NEW q \in Procs, Cas(q)
      PROVE  q = p
  <2>1. \/ \E rec : proc' = [proc EXCEPT ![q] = rec]
        \/ trees' = trees
    BY <1>2, CasDoes DEF Done
  <2> QED
    BY <1>1, <2>1 DEF TypeInv
<1>3. ASSUME NEW q \in Procs,
             \/ Begin(q) \/ Stage(q) \/ Materialize(q) \/ Build(q) \/ Clear(q)
             \/ Look(q) \/ Put(q) \/ Crash(q)
      PROVE  trees' = trees
  BY <1>3 DEF Begin, Stage, Materialize, Build, Clear, Look, Put, Crash, store
<1>4. Peer => proc' = proc
  BY DEF Peer
<1>5. WriteSource \/ UNCHANGED vars => trees' = trees
  BY DEF WriteSource, store, vars
<1>6. Cas(p)
  BY <1>1, <1>2, <1>3, <1>4, <1>5 DEF Next
<1>7. /\ head = proc[p].parent /\ trees' = Append(trees, proc[p].result)
      /\ proc[p].result \in FileSets
  BY <1>1, <1>6, CasDoes
<1>8. trees' \in Seq(FileSets) /\ trees'[Len(trees')] = proc[p].result
  BY <1>7, FilesAtStay DEF TypeInv
<1> QED
  BY <1>1, <1>6, <1>7, <1>8 DEF Published

\* Promotion (repository_ops.py) puts a blob in the place of each pointer
\* and changes nothing else, and the blob has the content the pointer was
\* made for, whatever others commit meanwhile: it publishes only at the commit
\* it read, and a source that nobody touches is what it was.
THEOREM PromotionKeepsBytes == Spec => PromoteKeepsBytes
<1>1. ASSUME BuiltInv, [Next]_vars, NEW p \in Procs, Applied(p), proc[p].op.kind = "promote"
      PROVE  LET old == FilesAt(head)
             IN  /\ DOMAIN Published = DOMAIN old /\ Pointers(Published) = {}
                 /\ \A q \in DOMAIN old :
                       \/ Published[q] = old[q]
                       \/ /\ old[q].mode = "pointer"
                          /\ \/ Published[q] = Blob(old[q].tag)
                             \/ old[q].tag # disk[old[q].source]
                             \/ ~proc[p].calm
  <2>1. /\ proc[p].pc = "cas" /\ head = proc[p].parent /\ Published = proc[p].result
        /\ KeepsBytes(p)
    BY <1>1, AppliedIs DEF BuiltInv, StageInv
  <2>2. Kept(FilesAt(head), proc[p].result, proc[p].calm)
    BY <1>1, <2>1 DEF KeepsBytes
  <2> QED
    BY <2>1, <2>2 DEF Kept
<1>2. BuiltInv /\ [Next]_vars =>
        [\A p \in Procs :
            LET old == FilesAt(head)
            IN  Applied(p) /\ proc[p].op.kind = "promote" =>
                  /\ DOMAIN Published = DOMAIN old /\ Pointers(Published) = {}
                  /\ \A q \in DOMAIN old :
                        \/ Published[q] = old[q]
                        \/ /\ old[q].mode = "pointer"
                           /\ \/ Published[q] = Blob(old[q].tag)
                              \/ old[q].tag # disk[old[q].source]
                              \/ ~proc[p].calm]_vars
  BY <1>1
<1> QED
  BY <1>2, BuiltInvariance, PTL DEF Spec, PromoteKeepsBytes
\* Whatever commit and the direct operations publish is what they make of the
\* head: a compare-and-set at the head read (write_commit_object), and a
\* tree rebuilt for each retry, leave no room for a stale parent, and commit
\* takes all that is staged.
THEOREM CommitsApplyToTheHead == Spec => AppliesToTheHead
<1>1. ASSUME BuiltInv, [Next]_vars, NEW p \in Procs, Applied(p), ~overlapped, proc[p].calm,
             NEW changes, changes = IF proc[p].op.kind = "commit" THEN staged ELSE NoFiles
      PROVE  /\ ~Raises(proc[p].op, FilesAt(head), Entries(changes), RemovesOf(changes))
             /\ Published = Result(proc[p].op, FilesAt(head), Entries(changes), RemovesOf(changes))
  <2> DEFINE r == proc[p]
  <2>1. /\ r.pc = "cas" /\ head = r.parent /\ Published = r.result
        /\ Ready(p) /\ Prepared(p)
    BY <1>1, AppliedIs DEF BuiltInv, StageInv
  <2>2. r.loaded = changes /\ r.entries = Entries(changes)
    <3>1. CASE r.op.kind = "commit"
      <4>1. r.loaded = staged
        BY <1>1, <2>1, <3>1 DEF BuiltInv, StageInv, Engaged, StagingKinds
      <4> QED
        BY <1>1, <2>1, <3>1, <4>1 DEF Ready
    <3>2. CASE r.op.kind # "commit"
      <4>1. r.loaded = NoFiles /\ r.entries = NoFiles /\ changes = NoFiles
        BY <1>1, <2>1, <3>2 DEF Ready
      <4> QED
        BY <4>1, NoChangesIs
    <3> QED
      BY <3>1, <3>2
  <2>3. /\ ~Raises(r.op, FilesAt(r.parent), r.entries, RemovesOf(r.loaded))
        /\ r.result = Result(r.op, FilesAt(r.parent), r.entries, RemovesOf(r.loaded))
    BY <1>1, <2>1 DEF Prepared
  <2> QED
    BY <2>1, <2>2, <2>3
<1>2. BuiltInv /\ [Next]_vars =>
        [\A p \in Procs :
            LET op == proc[p].op
                changes == IF op.kind = "commit" THEN staged ELSE NoFiles
            IN  Applied(p) /\ ~overlapped /\ proc[p].calm =>
                  /\ ~Raises(op, FilesAt(head), Entries(changes), RemovesOf(changes))
                  /\ Published = Result(op, FilesAt(head), Entries(changes), RemovesOf(changes))]_vars
  BY <1>1
<1> QED
  BY <1>2, BuiltInvariance, PTL DEF Spec, AppliesToTheHead

\* Where a move takes a path, and which files it displaces.
Goal(q, from, to) == IF Within(q, from) THEN MovedPath(q, from, to) ELSE q
Moves(files, from) == {q \in DOMAIN files : Within(q, from)}
Displaced(files, from, to) ==
    {q \in DOMAIN files \ Moves(files, from) : \E r \in Moves(files, from) :
        /\ q # Goal(r, from, to)
        /\ Within(q, Goal(r, from, to)) \/ Within(Goal(r, from, to), q)}

\* Every other file is in new, where the move takes it.
KeepsFiles(new, files, from, to) ==
    LET left == DOMAIN files \ Displaced(files, from, to)
    IN  /\ DOMAIN new = {Goal(q, from, to) : q \in left}
        /\ \A q \in left : new[Goal(q, from, to)] = files[q]

\* So it is in a move that collides with none.
LEMMA MoveKeeps ==
    ASSUME NEW files \in FileSets, NEW from \in Path, NEW to \in Path,
           \A q \in DOMAIN Moved(files, from, to) \intersect DOMAIN files : Within(q, from)
    PROVE  KeepsFiles(FlatSplice(files, Moved(files, from, to), {from}), files, from, to)
<1> DEFINE new == FlatSplice(files, Moved(files, from, to), {from})
           left == DOMAIN files \ Displaced(files, from, to)
           adds == Moved(files, from, to)
           moves == Moves(files, from)
           goal(q) == Goal(q, from, to)
           spared == Spared(files, adds, {from})
<1>1. /\ DOMAIN adds = {goal(p) : p \in moves}
      /\ \A p \in moves : adds[goal(p)] = files[p]
  <2>1. /\ DOMAIN adds = {MovedPath(p, from, to) : p \in moves}
        /\ \A p \in moves : adds[MovedPath(p, from, to)] = files[p]
    BY MovedIs DEF Moves
  <2>2. \A p \in moves : goal(p) = MovedPath(p, from, to)
    BY DEF Goal, Moves
  <2> HIDE DEF adds, moves, goal
  <2>3. {goal(p) : p \in moves} = {MovedPath(p, from, to) : p \in moves}
    BY <2>2
  <2> QED
    BY <2>1, <2>2, <2>3
<1>2. \A q \in DOMAIN adds \intersect DOMAIN files : q \in moves
  BY DEF Moves
<1>3. \A q \in DOMAIN files \ moves : goal(q) = q
  BY DEF Goal, Moves
<1>4. /\ DOMAIN new = DOMAIN adds \union spared
      /\ \A p \in DOMAIN adds : new[p] = adds[p]
      /\ \A p \in spared \ DOMAIN adds : new[p] = files[p]
  BY ZenonT(60), SpliceIs
<1>5. spared = {q \in DOMAIN files : /\ q \notin moves
                                     /\ ~ \E r \in DOMAIN adds : Within(q, r) \/ Within(r, q)}
  BY DEF Spared, PathIsRemoved, Moves
<1>6. left = {q \in DOMAIN files : \/ q \in moves
                                   \/ ~ \E r \in moves : /\ q # goal(r)
                                                         /\ Within(q, goal(r)) \/ Within(goal(r), q)}
  BY DEF Displaced
<1> HIDE DEF adds, spared, moves, goal, left, new
<1>7. \A q \in DOMAIN files : Within(q, q)
  BY FileSetsAre, PathsAre, WithinItself DEF IsFiles
<1>8. moves \subseteq DOMAIN files
  BY DEF moves, Moves
<1>9. left = moves \union spared
  <2>1. ASSUME NEW q \in DOMAIN files \ moves
        PROVE  q \in left <=> q \in spared
    BY <1>1, <1>2, <1>5, <1>6, <2>1
  <2> QED
    BY <1>5, <1>6, <1>8, <2>1
<1>10. spared \intersect moves = {} /\ spared \intersect DOMAIN adds = {} /\ spared \subseteq DOMAIN files
  BY <1>5, <1>7
<1>11. DOMAIN new = {goal(q) : q \in left}
  <2>1. \A q \in spared : goal(q) = q
    BY <1>3, <1>10
  <2>2. {goal(q) : q \in left} = {goal(q) : q \in moves} \union spared
    BY <1>9, <2>1
  <2> QED
    BY <1>1, <1>4, <2>2
<1>12. \A q \in left : new[goal(q)] = files[q]
  BY <1>1, <1>3, <1>4, <1>9, <1>10
<1> QED
  BY <1>11, <1>12 DEF KeepsFiles, goal, left, new

\* A direct mv loses no file but those that stand in the way below or above a
\* moved one (repository_ops.py checks for a collision by exact path only),
\* whatever others commit while it runs.
THEOREM MovesLoseNothing == Spec => MoveLosesNothing
<1>1. ASSUME BuiltInv, [Next]_vars, NEW p \in Procs, Applied(p), proc[p].op.kind = "move",
             NEW op, op = proc[p].op, NEW old, old = FilesAt(head)
      PROVE  KeepsFiles(Published, old, op.from, op.to)
  <2> DEFINE r == proc[p]
  <2>1. /\ r.pc = "cas" /\ head = r.parent /\ Published = r.result
        /\ Prepared(p) /\ Working(p) /\ r \in Records /\ TypeInv
    BY <1>1, AppliedIs DEF BuiltInv, StageInv, TypeInv
  <2>2. /\ ~Raises(op, old, r.entries, RemovesOf(r.loaded))
        /\ r.result = Result(op, old, r.entries, RemovesOf(r.loaded))
    BY <1>1, <2>1 DEF Prepared
  <2>3. ~Collides(old, op) /\ r.result = FlatSplice(old, Moved(old, op.from, op.to), {op.from})
    BY <1>1, <2>2 DEF Raises, Result
  <2>4. old \in FileSets /\ op.from \in Path /\ op.to \in Path
    <3>1. op \in OpSet
      BY <1>1, <2>1, ProcOps DEF Working
    <3>2. op.from \in Paths /\ op.to \in Path
      BY <1>1, <3>1, OpKinds
    <3> QED
      BY <1>1, <2>1, <3>2, HeadIs, PathsAre
  <2>5. \A q \in DOMAIN Moved(old, op.from, op.to) \intersect DOMAIN old : Within(q, op.from)
    BY <2>3 DEF Collides
  <2> HIDE DEF r
  <2>6. KeepsFiles(r.result, old, op.from, op.to)
    BY <1>1, <2>3, <2>4, <2>5, MoveKeeps
  <2> QED
    BY <2>1, <2>6
<1>2. ASSUME BuiltInv, [Next]_vars, NEW p \in Procs, Applied(p), proc[p].op.kind = "move"
      PROVE  KeepsFiles(Published, FilesAt(head), proc[p].op.from, proc[p].op.to)
  BY <1>1, <1>2
<1>3. BuiltInv /\ [Next]_vars =>
        [\A p \in Procs :
            LET op == proc[p].op
                old == FilesAt(head)
                goal(q) == IF Within(q, op.from) THEN MovedPath(q, op.from, op.to) ELSE q
                moves == {q \in DOMAIN old : Within(q, op.from)}
                displaced == {q \in DOMAIN old \ moves : \E r \in moves :
                                /\ q # goal(r)
                                /\ Within(q, goal(r)) \/ Within(goal(r), q)}
            IN  Applied(p) /\ op.kind = "move" =>
                  /\ DOMAIN Published = {goal(q) : q \in DOMAIN old \ displaced}
                  /\ \A q \in DOMAIN old \ displaced : Published[goal(q)] = old[q]]_vars
  BY <1>2 DEF KeepsFiles, Goal, Moves, Displaced
<1> QED
  BY <1>3, BuiltInvariance, PTL DEF Spec, MoveLosesNothing
-----------------------------------------------------------------------------
(* What status foretells, and what mv --staged makes.                      *)

\* g has the files of w, and those of f that are not in their way.
LaidOver(g, w, f) ==
    /\ DOMAIN g = DOMAIN w \union
                    {p \in DOMAIN f : ~ \E q \in DOMAIN w : Within(p, q) \/ Within(q, p)}
    /\ \A p \in DOMAIN w : g[p] = w[p]
    /\ \A p \in DOMAIN g \ DOMAIN w : p \in DOMAIN f /\ g[p] = f[p]

\* A full commit with nothing staged lays the worktree over the branch.
LEMMA PlainCommit ==
    ASSUME NEW f \in FileSets, NEW w
    PROVE  LaidOver(FlatCommit(f, w, NoFiles, {}), w, f)
<1> DEFINE gone(h) == {p \in DOMAIN h : PathIsRemoved(p, {})}
           kept == Without(w, gone(w))
           late == LateAdds(DOMAIN kept, DOMAIN NoFiles)
           early == {p \in DOMAIN NoFiles \ late : ~ \E q \in DOMAIN kept : Within(q, p)}
           adds == Over(kept, Only(NoFiles, early))
           built == FlatSplice(f, adds, {})
           left == Without(built, gone(built))
           none == Only(NoFiles, late)
           g == FlatSplice(left, none, {})
<1>1. FlatCommit(f, w, NoFiles, {}) = g
  BY DEF FlatCommit
<1>2. \A h : gone(h) = {}
  BY DEF PathIsRemoved
<1>3. DOMAIN kept = DOMAIN w /\ \A p \in DOMAIN w : kept[p] = w[p]
  BY <1>2 DEF Without, Only
<1> HIDE DEF gone, kept
<1>4. late = {} /\ early = {}
  BY NoFilesIs DEF LateAdds
<1> HIDE DEF late, early
<1>5. DOMAIN adds = DOMAIN w /\ \A p \in DOMAIN w : adds[p] = w[p]
  BY <1>3, <1>4 DEF Over, Only
<1> HIDE DEF adds
<1>6. /\ DOMAIN built = DOMAIN adds \union Spared(f, adds, {})
      /\ \A p \in DOMAIN adds : built[p] = adds[p]
      /\ \A p \in Spared(f, adds, {}) \ DOMAIN adds : built[p] = f[p]
  BY ZenonT(60), SpliceIs
<1>7. Spared(f, adds, {}) =
        {p \in DOMAIN f : ~ \E q \in DOMAIN w : Within(p, q) \/ Within(q, p)}
  BY <1>5 DEF Spared, PathIsRemoved
<1> HIDE DEF built
<1>8. DOMAIN left = DOMAIN built /\ \A p \in DOMAIN built : left[p] = built[p]
  BY <1>2 DEF Without, Only
<1> HIDE DEF left
<1>9. DOMAIN none = {}
  BY <1>4 DEF Only
<1> HIDE DEF none
<1>10. /\ DOMAIN g = DOMAIN none \union Spared(left, none, {})
       /\ \A p \in Spared(left, none, {}) \ DOMAIN none : g[p] = left[p]
  BY ZenonT(60), SpliceIs
<1>11. Spared(left, none, {}) = DOMAIN left
  BY <1>9 DEF Spared, PathIsRemoved
<1> HIDE DEF g
<1>12. DOMAIN g = DOMAIN built /\ \A p \in DOMAIN built : g[p] = built[p]
  BY <1>8, <1>9, <1>10, <1>11
<1>13. /\ DOMAIN g = DOMAIN w \union Spared(f, adds, {})
       /\ \A p \in DOMAIN w : g[p] = w[p]
       /\ \A p \in DOMAIN g \ DOMAIN w : p \in Spared(f, adds, {}) /\ g[p] = f[p]
  BY <1>5, <1>6, <1>12
<1>14. Spared(f, adds, {}) \subseteq DOMAIN f
  BY DEF Spared
<1> QED
  BY <1>1, <1>7, <1>13, <1>14 DEF LaidOver

\* status --working-tree (its comparison in services/entries.py) and commit
\* agree on what differs, and commit keeps what status reports as removed,
\* unless it stands in the way of a file of the worktree.
THEOREM StatusForetells == Spec => []StatusPredictsCommit
<1>1. ASSUME TypeInv
      PROVE  StatusPredictsCommit
  <2> DEFINE files == FilesAt(head)
             w == WorkEntries
             after == FlatCommit(files, w, NoFiles, {})
             W == DOMAIN Worktree
             status == StatusOf(files)
             displaced == {p \in status.removed : \E q \in W : Within(p, q) \/ Within(q, p)}
  <2>1. files \in FileSets
    BY <1>1, HeadIs
  <2>2. DOMAIN w = W /\ \A p \in W : w[p] = Blob(disk[p]) /\ w[p] # None
    <3>1. w \in FileSets
      BY <1>1, WorkEntriesType DEF TypeInv
    <3>2. \A p \in DOMAIN w : w[p] \in EntrySet
      BY <3>1, FileSetsAre DEF IsFiles
    <3>3. \A p \in DOMAIN w : w[p] # None
      BY <3>2, EntryKinds
    <3> QED
      BY <3>3 DEF WorkEntries
  <2>3. \A p \in DOMAIN files : files[p] # None
    BY <2>1, FileSetsAre, EntryKinds DEF IsFiles
  <2> HIDE DEF files, w, W
  <2>4. /\ DOMAIN after = DOMAIN w \union
                            {p \in DOMAIN files : ~ \E q \in DOMAIN w : Within(p, q) \/ Within(q, p)}
        /\ \A p \in DOMAIN w : after[p] = w[p]
        /\ \A p \in DOMAIN after \ DOMAIN w : p \in DOMAIN files /\ after[p] = files[p]
    <3>1. LaidOver(after, w, files)
      BY <2>1, PlainCommit
    <3> HIDE DEF after
    <3> QED
      BY <3>1 DEF LaidOver
  <2>5. /\ status.added = W \ DOMAIN files
        /\ status.removed = DOMAIN files \ W
        /\ status.modified = {p \in DOMAIN files \intersect W : files[p] # Blob(disk[p])}
    BY DEF StatusOf, W
  <2> HIDE DEF after, status
  <2>6. ASSUME NEW p \in W
        PROVE  At(files, p) # At(after, p) <=> p \in status.added \union status.modified
    BY <2>2, <2>4, <2>5, <2>6 DEF At
  <2>7. ASSUME NEW p \in DOMAIN files \ W
        PROVE  At(files, p) # At(after, p) <=> p \in displaced
    <3>1. CASE \E q \in W : Within(p, q) \/ Within(q, p)
      <4>1. p \notin DOMAIN after /\ p \in displaced
        BY <2>2, <2>4, <2>5, <2>7, <3>1
      <4> QED
        BY <2>3, <2>7, <4>1 DEF At
    <3>2. CASE ~ \E q \in W : Within(p, q) \/ Within(q, p)
      <4>1. p \in DOMAIN after /\ after[p] = files[p] /\ p \notin displaced
        BY <2>2, <2>4, <2>7, <3>2
      <4> QED
        BY <2>7, <4>1 DEF At
    <3> QED
      BY <3>1, <3>2
  <2>8. DOMAIN files \union DOMAIN after = W \union (DOMAIN files \ W)
    BY <2>2, <2>4
  <2>9. displaced \subseteq DOMAIN files \ W
    BY <2>5
  <2>10. status.added \union status.modified \subseteq W
    BY <2>5
  <2> HIDE DEF displaced
  <2>11. Changed(files, after) = status.added \union status.modified \union displaced
    BY <2>6, <2>7, <2>8, <2>9, <2>10 DEF Changed
  <2> QED
    BY <2>11 DEF StatusPredictsCommit, files, w, W, after, status, displaced
<1> QED
  BY <1>1, TypeInvariance, PTL
\* Removing the files of a directory, or the directory, is the same.
LEMMA SameRemoval ==
    ASSUME NEW files \in FileSets, NEW adds, NEW from \in Path
    PROVE  FlatSplice(files, adds, Moves(files, from)) = FlatSplice(files, adds, {from})
<1>1. \A p \in DOMAIN files : p \in Path
  BY FileSetsAre, PathsAre DEF IsFiles
<1>2. ASSUME NEW p \in DOMAIN files
      PROVE  PathIsRemoved(p, Moves(files, from)) <=> PathIsRemoved(p, {from})
  <2>1. Within(p, from) => Within(p, p) /\ p \in Moves(files, from)
    BY <1>1, WithinItself DEF Moves
  <2>2. \A q \in Moves(files, from) : Within(p, q) => Within(p, from)
    BY <1>1, WithinTrans DEF Moves
  <2> QED
    BY <2>1, <2>2 DEF PathIsRemoved
<1> DEFINE gone(removed) == {p \in DOMAIN files :
                                \/ PathIsRemoved(p, removed)
                                \/ \E q \in DOMAIN adds : Within(p, q) \/ Within(q, p)}
<1>3. gone(Moves(files, from)) = gone({from})
  BY <1>2
<1>4. /\ FlatSplice(files, adds, Moves(files, from))
           = Over(adds, Without(files, gone(Moves(files, from))))
      /\ FlatSplice(files, adds, {from}) = Over(adds, Without(files, gone({from})))
  BY DEF FlatSplice
<1> HIDE DEF gone
<1> QED
  BY <1>3, <1>4

\* The entry of a moved addition whose destination is free, or whose source
\* is what it was, is the entry moved.
LEMMA FaithfulEntry ==
    ASSUME disk \in Disks, NEW e \in EntrySet, NEW to \in Paths, Faithful(to, e, to)
    PROVE  EntryFromChange(to, AddMoved(e)) = e
<1>1. CASE e.mode = "content"
  <2>1. e = Blob(e.hash) /\ e.hash # None
    BY <1>1, EntryKinds, StagingAssumption
  <2>2. AddMoved(e) = [action |-> "add", mode |-> "content", source |-> None, hash |-> e.hash]
    BY <1>1 DEF AddMoved
  <2>3. ~Exists(to)
    BY <1>1 DEF Faithful
  <2>4. disk[to] = None
    BY <2>3, WorktreeIs, PathsAre, WithinItself DEF Exists
  <2> QED
    BY <2>1, <2>2, <2>3, <2>4 DEF EntryFromChange
<1>2. CASE e.mode = "pointer"
  <2>1. /\ e.source \in Sources /\ e.tag \in Contents /\ e = Pointer(e.source, e.tag)
        /\ e.source # None /\ e.tag # None
    BY <1>2, EntryKinds, StagingAssumption
  <2>2. AddMoved(e) = [action |-> "add", mode |-> "pointer", source |-> e.source, hash |-> None]
    BY <1>2 DEF AddMoved, Add
  <2>3. disk[e.source] = e.tag
    BY <1>2 DEF Faithful
  <2> QED
    BY <2>1, <2>2, <2>3 DEF EntryFromChange, EntryFromSource
<1> QED
  BY <1>1, <1>2, EntryKinds DEF Modes

\* mv --staged and a commit of what it stages (repo_move_staged) make what a
\* direct mv makes, wherever both accept the move, no moved file takes the
\* old path of another, and the worktree does not get between.
THEOREM StagedMovesMove == Spec => []StagedMoveIsMove
<1>1. ASSUME TypeInv, NEW files, files = FilesAt(head), NEW from \in Paths, NEW to \in Paths,
             \A p \in Moves(files, from) :
                /\ MovedPath(p, from, to) \notin Moves(files, from)
                /\ MovedPath(p, from, to) \in Paths
                /\ Faithful(p, files[p], MovedPath(p, from, to))
      PROVE  LET changes == MoveChanges(files, from, to)
             IN  FlatSplice(files, Entries(changes), RemovesOf(changes))
                   = FlatSplice(files, Moved(files, from, to), {from})
  <2> DEFINE sources == Moves(files, from)
             new(p) == MovedPath(p, from, to)
             removes == {p \in sources : \A q \in sources : new(q) = p => WalkLess(q, p)}
             adds == {new(p) : p \in sources} \ removes
             origin(p) == CHOOSE q \in sources : new(q) = p
             removing == [p \in removes |-> Remove]
             adding == [p \in adds |-> AddMoved(files[origin(p)])]
             changes == MoveChanges(files, from, to)
             moved == Moved(files, from, to)
  <2>1. changes = Over(removing, adding)
    BY DEF MoveChanges, Moves
  <2>2. files \in FileSets /\ from \in Path /\ to \in Path /\ disk \in Disks
    BY <1>1, HeadIs, PathsAre DEF TypeInv
  <2>3. /\ \A p \in sources : p \in Path /\ files[p] \in EntrySet /\ Within(p, from)
        /\ \A p, q \in sources : new(p) = new(q) => p = q
    <3>1. \A p \in sources : p \in Path /\ files[p] \in EntrySet /\ Within(p, from)
      BY <2>2, FileSetsAre, PathsAre DEF Moves, IsFiles
    <3> QED
      BY <2>2, <3>1, MovedPathInjective
  <2>4. /\ DOMAIN moved = {new(p) : p \in sources}
        /\ \A p \in sources : moved[new(p)] = files[p]
    BY <2>2, MovedIs DEF Moves
  <2>5. moved = [p \in DOMAIN moved |-> moved[p]]
    BY DEF Moved
  <2>6. removes = sources /\ adds = {new(p) : p \in sources}
    <3>1. \A p, q \in sources : new(q) # p
      BY <1>1
    <3> HIDE DEF sources, new
    <3> QED
      BY <3>1
  <2>7. /\ DOMAIN removing = removes /\ \A p \in removes : removing[p] = Remove
        /\ DOMAIN adding = adds /\ \A p \in adds : adding[p] = AddMoved(files[origin(p)])
    OBVIOUS
  <2>8. \A p \in sources : origin(new(p)) = p
    BY <2>3
  <2>9. \A p \in sources : /\ new(p) \notin sources /\ new(p) \in Paths
                           /\ Faithful(p, files[p], new(p))
    BY <1>1
  <2> HIDE DEF sources, new, removes, adds, origin, changes, moved, removing, adding
  <2>10. /\ DOMAIN changes = sources \union DOMAIN moved
         /\ \A p \in sources : changes[p] = Remove
         /\ \A p \in sources : changes[new(p)] = AddMoved(files[p])
    <3>1. /\ DOMAIN changes = DOMAIN removing \union DOMAIN adding
          /\ \A p \in DOMAIN removing : changes[p] = removing[p]
          /\ \A p \in DOMAIN adding \ DOMAIN removing : changes[p] = adding[p]
      BY <2>1 DEF Over
    <3>2. \A p \in sources : changes[p] = Remove
      BY <2>6, <2>7, <3>1
    <3>3. ASSUME NEW p \in sources
          PROVE  changes[new(p)] = AddMoved(files[p])
      <4>1. new(p) \in DOMAIN adding \ DOMAIN removing
        BY <2>6, <2>7, <2>9
      <4> QED
        BY <2>7, <2>8, <3>1, <4>1
    <3> QED
      BY <2>4, <2>6, <2>7, <3>1, <3>2, <3>3
  <2>11. RemovesOf(changes) = sources /\ AddsOf(changes) = DOMAIN moved
    <3>1. \A p \in sources : changes[p].action = "remove"
      BY <2>10 DEF Remove
    <3>2. \A p \in DOMAIN moved : changes[p].action = "add"
      <4>1. \A e : AddMoved(e).action = "add"
        BY DEF AddMoved, Add
      <4> QED
        BY <2>4, <2>10, <4>1
    <3> QED
      BY <2>10, <3>1, <3>2 DEF RemovesOf, AddsOf
  <2>12. \A p \in DOMAIN moved : EntryFromChange(p, changes[p]) = moved[p]
    <3>1. ASSUME NEW p \in sources
          PROVE  EntryFromChange(new(p), AddMoved(files[p])) = files[p]
      <4>1. Faithful(new(p), files[p], new(p))
        BY <2>9 DEF Faithful
      <4> QED
        BY <2>2, <2>3, <2>9, <4>1, FaithfulEntry
    <3> QED
      BY <2>4, <2>10, <3>1
  <2>13. Entries(changes) = moved
    <3>1. Entries(changes) = [p \in DOMAIN moved |-> EntryFromChange(p, changes[p])]
      BY <2>11 DEF Entries
    <3> QED
      BY <2>5, <2>12, <3>1
  <2>14. FlatSplice(files, moved, sources) = FlatSplice(files, moved, {from})
    BY <2>2, SameRemoval DEF sources
  <2> QED
    BY <2>11, <2>13, <2>14 DEF changes, moved
<1>2. TypeInv => StagedMoveIsMove
  BY <1>1 DEF StagedMoveIsMove, Moves
<1> QED
  BY <1>2, TypeInvariance, PTL
-----------------------------------------------------------------------------
(* The order of the paths.                                                 *)

\* A set of numbers has a least one.
LEMMA LeastOf ==
    ASSUME NEW T \in SUBSET Nat, T # {}
    PROVE  \E m \in T : \A n \in T : m <= n
<1> DEFINE less == OpToRel(<, Nat)
<1>1. IsWellFoundedOn(less, Nat)
  BY NatLessThanWellFounded
<1>2. \A m, n \in Nat : m < n => <<m, n>> \in less
  BY DEF OpToRel
<1> HIDE DEF less
<1>3. PICK m \in T : \A n \in T : ~ (<<n, m>> \in less)
  BY <1>1, WFMin
<1>4. ASSUME NEW n \in T
      PROVE  m <= n
  <2>1. m \in Nat /\ n \in Nat
    OBVIOUS
  <2>2. ~(n < m)
    BY <1>2, <1>3, <2>1
  <2> QED
    BY <2>1, <2>2
<1> QED
  BY <1>4

\* The first names in which two paths differ.
Differ(p, q, i) ==
    /\ i \in 1 .. Len(p) /\ i \in 1 .. Len(q)
    /\ p[i] # q[i]
    /\ \A j \in 1 .. i - 1 : p[j] = q[j]

\* The path whose name is longer by a character below the slash is the less
\* of the two if the other goes on with a slash.
NameLess(p, q, i) ==
    IF p[i] < q[i] THEN ~(Len(p) > i /\ <<q[i], p[i]>> \in Extends)
    ELSE Len(q) > i /\ <<p[i], q[i]>> \in Extends

LEMMA DifferSome ==
    ASSUME NEW p \in Path, NEW q \in Path, ~Within(p, q), ~Within(q, p)
    PROVE  \E i : Differ(p, q, i)
<1> DEFINE T == {i \in 1 .. Len(p) : i <= Len(q) /\ p[i] # q[i]}
<1>1. Len(p) \in Nat /\ Len(q) \in Nat
  BY DEF Path
<1>2. T # {}
  <2>1. CASE Len(q) <= Len(p)
    <3>1. PICK i \in 1 .. Len(q) : p[i] # q[i]
      BY <2>1, WithinEach
    <3> QED
      BY <1>1, <2>1, <3>1
  <2>2. CASE Len(p) <= Len(q)
    <3>1. PICK i \in 1 .. Len(p) : q[i] # p[i]
      BY <2>2, WithinEach
    <3> QED
      BY <1>1, <2>2, <3>1
  <2> QED
    BY <1>1, <2>1, <2>2
<1>3. T \subseteq Nat
  BY <1>1
<1>4. PICK i \in T : \A n \in T : i <= n
  BY <1>2, <1>3, LeastOf
<1>5. \A j \in 1 .. i - 1 : p[j] = q[j]
  BY <1>1, <1>4
<1> QED
  BY <1>1, <1>4, <1>5 DEF Differ

\* What PathLess compares.
LEMMA FirstDifferenceIs ==
    ASSUME NEW p \in Path, NEW q \in Path, NEW i, Differ(p, q, i)
    PROVE  FirstDifference(p, q) = i /\ FirstDifference(q, p) = i
<1>1. Len(p) \in Nat /\ Len(q) \in Nat
  BY DEF Path
<1> DEFINE first(k) == /\ k \in 1 .. Len(p) /\ p[k] # q[k]
                       /\ \A j \in 1 .. k - 1 : p[j] = q[j]
           second(k) == /\ k \in 1 .. Len(q) /\ q[k] # p[k]
                        /\ \A j \in 1 .. k - 1 : q[j] = p[j]
<1>2. first(i) /\ \A k : first(k) => k = i
  BY <1>1 DEF Differ
<1>3. second(i) /\ \A k : second(k) => k = i
  BY <1>1 DEF Differ
<1>4. FirstDifference(p, q) = CHOOSE k : first(k)
  BY DEF FirstDifference
<1>5. FirstDifference(q, p) = CHOOSE k : second(k)
  BY DEF FirstDifference
<1> HIDE DEF first, second
<1>6. first(CHOOSE k : first(k))
  BY <1>2
<1>7. second(CHOOSE k : second(k))
  BY <1>3
<1> QED
  BY <1>2, <1>3, <1>4, <1>5, <1>6, <1>7

LEMMA DifferNotWithin ==
    ASSUME NEW p \in Path, NEW q \in Path, NEW i, Differ(p, q, i)
    PROVE  ~Within(p, q) /\ ~Within(q, p)
BY WithinEach DEF Differ

LEMMA PathLessIs ==
    ASSUME NEW p \in Path, NEW q \in Path
    PROVE  PathLess(p, q) <=> \/ Within(q, p) /\ p # q
                              \/ \E i : Differ(p, q, i) /\ NameLess(p, q, i)
<1>1. CASE Within(p, q) \/ Within(q, p)
  <2>1. ~ \E i : Differ(p, q, i)
    BY <1>1, DifferNotWithin
  <2>2. Within(p, q) /\ Within(q, p) => p = q
    BY WithinBoth
  <2> QED
    BY <1>1, <2>1, <2>2 DEF PathLess
<1>2. CASE ~Within(p, q) /\ ~Within(q, p)
  <2>1. PICK i : Differ(p, q, i)
    BY <1>2, DifferSome
  <2>2. \A k : Differ(p, q, k) => k = i
    BY <2>1, FirstDifferenceIs
  <2>3. FirstDifference(p, q) = i
    BY <2>1, FirstDifferenceIs
  <2>4. PathLess(p, q) <=> NameLess(p, q, i)
    BY <1>2, <2>3 DEF PathLess, NameLess
  <2> QED
    BY <1>2, <2>1, <2>2, <2>4
<1> QED
  BY <1>1, <1>2

\* It is an order: no two paths are less than each other ...
LEMMA PathLessOnce ==
    ASSUME NEW p \in Path, NEW q \in Path, PathLess(p, q)
    PROVE  ~PathLess(q, p)
<1>1. CASE Within(q, p) /\ p # q
  <2>1. ~Within(p, q)
    BY <1>1, WithinBoth
  <2>2. ~ \E i : Differ(q, p, i)
    BY <1>1, DifferNotWithin
  <2> QED
    BY <2>1, <2>2, PathLessIs
<1>2. CASE \E i : Differ(p, q, i) /\ NameLess(p, q, i)
  <2>1. PICK i : Differ(p, q, i) /\ NameLess(p, q, i)
    BY <1>2
  <2>2. ~Within(p, q) /\ ~Within(q, p)
    BY <2>1, DifferNotWithin
  <2>3. ASSUME NEW k, Differ(q, p, k)
        PROVE  k = i
    <3>1. FirstDifference(p, q) = i
      BY <2>1, FirstDifferenceIs
    <3>2. FirstDifference(p, q) = k
      BY <2>3, FirstDifferenceIs
    <3> QED
      BY <3>1, <3>2
  <2>4. ~NameLess(q, p, i)
    <3>1. p[i] \in Nat /\ q[i] \in Nat /\ p[i] # q[i]
      BY <2>1 DEF Differ, Path
    <3> QED
      BY <2>1, <3>1 DEF NameLess
  <2> QED
    BY <2>2, <2>3, <2>4, PathLessIs
<1> QED
  BY <1>1, <1>2, PathLessIs
\* ... so the files that restore has left have at most one first.
LEMMA FirstOfOne ==
    ASSUME NEW f, DOMAIN f \subseteq Paths, NEW p \in FirstOf(f), NEW q \in FirstOf(f)
    PROVE  p = q
<1>1. p \in DOMAIN f /\ q \in DOMAIN f /\ p \in Path /\ q \in Path
  BY PathsAre DEF FirstOf
<1>2. /\ q = p \/ PathLess(p, q)
      /\ p = q \/ PathLess(q, p)
  BY <1>1 DEF FirstOf
<1> QED
  BY <1>1, <1>2, PathLessOnce
-----------------------------------------------------------------------------
(* What restore has done.                                                  *)

\* A file restore is through with: it has the bytes it had, or those of its
\* entry, or there is a directory.
Ended(q, entry, was, force) ==
    IF was[q] # None /\ ~force THEN disk[q] = was[q]
    ELSE /\ Exists(q)
         /\ disk[q] # None =>
              disk[q] \in {Bytes(entry)} \union
                          (IF entry.mode = "content" THEN {} ELSE {was[entry.source]})

\* Of entries, result is left: the sources that are not behind it are what they
\* were.
Filled(entries, result, was, force) ==
    /\ entries \in EntryMaps /\ result \in EntryMaps /\ was \in Disks
    /\ DOMAIN result \subseteq DOMAIN entries
    /\ \A q \in DOMAIN result : result[q] = entries[q]
    /\ \A s \in Sources : s \notin DOMAIN entries \ DOMAIN result => disk[s] = was[s]
    /\ \A q \in DOMAIN entries \ DOMAIN result : Ended(q, entries[q], was, force)

\* The file that comes next may be written.
NextIsFree(result, force) == \A path \in FirstOf(result) : Exists(path) => force

Restoring(p) ==
    \A entries, result, was, force :
        /\ proc[p].pc \in {"look", "put"} /\ proc[p].calm
        /\ entries = proc[p].entries /\ result = proc[p].result
        /\ was = proc[p].was /\ force = proc[p].op.force
        => /\ Filled(entries, result, was, force)
           /\ proc[p].pc = "put" => NextIsFree(result, force)

RestoreInv ==
    /\ TypeInv
    /\ \A p \in Procs : Restoring(p)

\* One more file is done.
LEMMA FilledSkip ==
    ASSUME NEW entries, NEW result, NEW was, NEW force,
           Filled(entries, result, was, force),
           NEW path \in DOMAIN result, Ended(path, entries[path], was, force)
    PROVE  Filled(entries, Without(result, {path}), was, force)
<1> DEFINE left == Without(result, {path})
<1>1. /\ left \in EntryMaps /\ DOMAIN left = DOMAIN result \ {path}
      /\ \A q \in DOMAIN result \ {path} : left[q] = result[q]
  BY WithoutEntries DEF Filled
<1> HIDE DEF left
<1>2. Filled(entries, left, was, force)
  <2>1. /\ entries \in EntryMaps /\ was \in Disks
        /\ DOMAIN left \subseteq DOMAIN entries
        /\ \A q \in DOMAIN left : left[q] = entries[q]
    BY <1>1 DEF Filled
  <2>2. \A s \in Sources : s \notin DOMAIN entries \ DOMAIN left => disk[s] = was[s]
    BY <1>1 DEF Filled
  <2>3. \A q \in DOMAIN entries \ DOMAIN left : Ended(q, entries[q], was, force)
    BY <1>1 DEF Filled
  <2> QED
    BY <1>1, <2>1, <2>2, <2>3 DEF Filled
<1> QED
  BY <1>2 DEF left

\* One more file is written.
LEMMA FilledPut ==
    ASSUME TypeInv, NEW entries, NEW result, NEW was, NEW force,
           Filled(entries, result, was, force),
           NEW path \in DOMAIN result, path \in Paths, Exists(path) => force,
           Bytes(result[path]) # None,
           disk' = [disk EXCEPT ![path] = Bytes(result[path])],
           NEW left, left = Without(result, {path})
    PROVE  Filled(entries, left, was, force)'
<1> DEFINE bytes == Bytes(result[path])
<1>1. /\ left \in EntryMaps /\ DOMAIN left = DOMAIN result \ {path}
      /\ \A q \in DOMAIN result \ {path} : left[q] = result[q]
  <2>1. result \in EntryMaps
    BY DEF Filled
  <2> QED
    BY <2>1, WithoutEntries
<1>2. /\ disk'[path] = bytes
      /\ \A s \in Sources : s # path => disk'[s] = disk[s]
  BY DEF TypeInv, Disks, Sources
<1>3. /\ path \in Sources /\ path \in DOMAIN entries /\ result[path] = entries[path]
      /\ disk[path] = was[path]
  BY DEF Filled, Sources
<1>4. \A q \in DOMAIN entries : q \in Paths /\ q \in Sources /\ entries[q] \in EntrySet
  BY EntryMapsAre DEF Filled, Additions, Sources
\* the worktree gains at most the file
<1>5. DOMAIN Worktree \subseteq DOMAIN Worktree' /\ path \in DOMAIN Worktree'
  <2>1. DOMAIN Worktree' = {q \in Paths : disk'[q] # None}
    BY DEF Worktree, Only
  <2>2. \A q \in Paths : disk[q] # None => disk'[q] # None
    BY <1>2 DEF Sources
  <2> QED
    BY <1>2, <2>1, <2>2, WorktreeIs
<1>6. \A q : Exists(q) => Exists(q)'
  BY <1>5 DEF Exists
<1>7. Exists(path)'
  BY <1>5, PathsAre, WithinItself DEF Exists
<1>8. was[path] # None => Exists(path) /\ force
  BY <1>3, WorktreeIs, PathsAre, WithinItself DEF Exists
<1>9. ASSUME NEW q \in DOMAIN entries \ DOMAIN left
      PROVE  Ended(q, entries[q], was, force)'
  <2> DEFINE e == entries[q]
  <2>1. e \in EntrySet /\ (e.mode = "pointer" => e.source \in Sources) /\ e.mode \in Modes
    BY <1>4, <1>9, EntryKinds
  <2> HIDE DEF e
  <2>2. CASE q = path
    <3>1. disk'[q] \in {IF e.mode = "content" THEN e.hash ELSE disk'[e.source]}
      <4>1. bytes = IF e.mode = "content" THEN e.hash ELSE disk[e.source]
        BY <1>3, <2>2 DEF Bytes, e
      <4>2. CASE e.mode = "pointer" /\ e.source = path
        BY <1>2, <2>2, <4>2
      <4>3. CASE e.mode = "pointer" /\ e.source # path
        BY <1>2, <2>1, <2>2, <4>1, <4>3
      <4>4. CASE e.mode = "content"
        BY <1>2, <2>2, <4>1, <4>4
      <4> QED
        BY <2>1, <4>2, <4>3, <4>4 DEF Modes
    <3>2. Exists(q)' /\ ~(was[q] # None /\ ~force)
      BY <1>7, <1>8, <2>2
    <3> QED
      BY <3>1, <3>2 DEF Ended, Bytes, e
  <2>3. CASE q # path
    <3>1. q \in DOMAIN entries \ DOMAIN result
      BY <1>1, <1>9, <2>3
    <3>2. Ended(q, e, was, force)
      BY <3>1 DEF Filled, e
    <3>3. disk'[q] = disk[q]
      BY <1>2, <1>4, <1>9, <2>3
    <3>4. CASE was[q] # None /\ ~force
      BY <3>2, <3>3, <3>4 DEF Ended, e
    <3>5. CASE ~(was[q] # None /\ ~force)
      <4>1. Exists(q)'
        BY <1>6, <3>2, <3>5 DEF Ended
      <4>2. ASSUME disk'[q] # None
            PROVE  disk'[q] \in {IF e.mode = "content" THEN e.hash ELSE disk'[e.source]} \union
                                (IF e.mode = "content" THEN {} ELSE {was[e.source]})
        <5>1. disk[q] \in {IF e.mode = "content" THEN e.hash ELSE disk[e.source]} \union
                          (IF e.mode = "content" THEN {} ELSE {was[e.source]})
          BY <3>2, <3>3, <3>5, <4>2 DEF Ended, Bytes
        <5>2. e.mode = "pointer" => disk[e.source] \in {disk'[e.source], was[e.source]}
          BY <1>2, <1>3, <2>1
        <5> QED
          BY <2>1, <3>3, <5>1, <5>2 DEF Modes
      <4> QED
        BY <3>5, <4>1, <4>2 DEF Ended, Bytes, e
    <3> QED
      BY <3>4, <3>5
  <2> QED
    BY <2>2, <2>3
<1>10. \A s \in Sources : s \notin DOMAIN entries \ DOMAIN left => disk'[s] = was[s]
  <2>1. ASSUME NEW s \in Sources, s \notin DOMAIN entries \ DOMAIN left
        PROVE  disk'[s] = was[s]
    <3>1. s # path /\ s \notin DOMAIN entries \ DOMAIN result
      BY <1>1, <1>3, <2>1
    <3> QED
      BY <1>2, <3>1 DEF Filled
  <2> QED
    BY <2>1
<1>11. /\ entries \in EntryMaps /\ was \in Disks
       /\ DOMAIN left \subseteq DOMAIN entries
       /\ \A q \in DOMAIN left : left[q] = entries[q]
  BY <1>1 DEF Filled
<1> QED
  BY <1>1, <1>9, <1>10, <1>11 DEF Filled
\* A process that the step does not move, or at most disturbs.
LEMMA RestoringStays ==
    ASSUME NEW p \in Procs, Restoring(p),
           proc'[p].pc = proc[p].pc, proc'[p].op = proc[p].op,
           proc'[p].entries = proc[p].entries, proc'[p].result = proc[p].result,
           proc'[p].was = proc[p].was,
           \/ disk' = disk /\ proc'[p].calm = proc[p].calm
           \/ proc[p].pc # "idle" => proc'[p].calm = FALSE
    PROVE  Restoring(p)'
<1>1. CASE disk' = disk /\ proc'[p].calm = proc[p].calm
  <2> SUFFICES ASSUME NEW entries, NEW result, NEW was, NEW force,
                      proc[p].pc \in {"look", "put"}, proc[p].calm,
                      entries = proc[p].entries, result = proc[p].result,
                      was = proc[p].was, force = proc[p].op.force
               PROVE  /\ Filled(entries, result, was, force)'
                      /\ proc[p].pc = "put" => NextIsFree(result, force)'
    BY <1>1 DEF Restoring
  <2>1. /\ Filled(entries, result, was, force)
        /\ proc[p].pc = "put" => NextIsFree(result, force)
    BY DEF Restoring
  <2>2. Worktree' = Worktree
    BY <1>1 DEF Worktree
  <2>3. Filled(entries, result, was, force)'
    BY <1>1, <2>1, <2>2 DEF Filled, Ended, Exists, Bytes
  <2>4. proc[p].pc = "put" => NextIsFree(result, force)'
    BY <2>1, <2>2 DEF NextIsFree, Exists
  <2> QED
    BY <2>3, <2>4
<1>2. CASE proc[p].pc # "idle" => proc'[p].calm = FALSE
  BY <1>2 DEF Restoring
<1> QED
  BY <1>1, <1>2

LEMMA RestoringIdle ==
    ASSUME NEW p \in Procs, proc'[p].pc \notin {"look", "put"}
    PROVE  Restoring(p)'
BY DEF Restoring

\* A step of p that changes no source.
LEMMA RestoreOthers ==
    ASSUME RestoreInv, TypeInv', NEW p \in Procs, NEW rec, proc' = [proc EXCEPT ![p] = rec],
           disk' = disk, Restoring(p)'
    PROVE  RestoreInv'
<1>1. \A q \in Procs \ {p} : proc'[q] = proc[q]
  BY OthersStay DEF RestoreInv
<1>2. \A q \in Procs \ {p} : Restoring(q)'
  BY <1>1, RestoringStays DEF RestoreInv
<1> QED
  BY <1>2 DEF RestoreInv

LEMMA RestoreDone ==
    ASSUME RestoreInv, TypeInv', NEW p \in Procs, Done(p), disk' = disk
    PROVE  RestoreInv'
<1>1. proc'[p] = Idle /\ proc' = [proc EXCEPT ![p] = Idle]
  BY OthersStay DEF Done, RestoreInv
<1> QED
  BY <1>1, IdleIs, RestoringIdle, RestoreOthers

\* A step of p in another operation.
LEMMA RestoreElse ==
    ASSUME RestoreInv, TypeInv', NEW p \in Procs, NEW rec, proc' = [proc EXCEPT ![p] = rec],
           disk' = disk, rec.pc \notin {"look", "put"}
    PROVE  RestoreInv'
<1>1. proc'[p] = rec
  BY OthersStay DEF RestoreInv
<1> QED
  BY <1>1, RestoringIdle, RestoreOthers

LEMMA RestoreBegin ==
    ASSUME RestoreInv, TypeInv', NEW p \in Procs, Begin(p)
    PROVE  RestoreInv'
<1>1. PICK op \in Ops[p] : proc' = [proc EXCEPT ![p] = Begun(op)]
  BY BeginDoes
<1>2. disk' = disk /\ TypeInv /\ op \in OpSet
  BY BeginDoes, ProcOps DEF RestoreInv
<1>3. proc'[p] = Begun(op)
  BY <1>1, <1>2, OthersStay
<1> DEFINE files == Restored(op)
<1>4. /\ proc'[p].pc = FirstPhase(op)
      /\ op.kind = "restore" =>
           proc'[p].entries = files /\ proc'[p].result = files /\ proc'[p].was = disk
  BY <1>2, <1>3, BegunIs
<1>5. FirstPhase(op) \in {"look", "put"} => op.kind = "restore" /\ FirstPhase(op) # "put"
  BY <1>2, OpKinds DEF FirstPhase
<1>6. files \in EntryMaps
  BY <1>2, RestoredType, FilesAreEntries
<1> HIDE DEF files, Begun
<1>7. Restoring(p)'
  <2> SUFFICES ASSUME NEW entries, NEW result, NEW was, NEW force,
                      proc'[p].pc \in {"look", "put"},
                      entries = proc'[p].entries, result = proc'[p].result,
                      was = proc'[p].was
               PROVE  /\ Filled(entries, result, was, force)'
                      /\ proc'[p].pc # "put"
    BY DEF Restoring
  <2>1. entries = files /\ result = files /\ was = disk' /\ proc'[p].pc # "put"
    BY <1>2, <1>4, <1>5
  <2> QED
    BY <1>2, <1>6, <2>1 DEF Filled, TypeInv
<1> QED
  BY <1>1, <1>2, <1>7, RestoreOthers

LEMMA RestoreLook ==
    ASSUME RestoreInv, TypeInv', NEW p \in Procs, Look(p)
    PROVE  RestoreInv'
<1> DEFINE r == proc[p]
<1>1. /\ disk' = disk /\ TypeInv /\ r \in Records /\ r.pc = "look" /\ Restoring(p)
      /\ r.result \in EntryMaps
  BY LookDoes DEF store, RestoreInv, TypeInv, Records
<1>2. CASE Done(p)
  BY <1>1, <1>2, RestoreDone
<1>3. ASSUME NEW path \in DOMAIN r.result, Exists(path), ~r.op.force,
             proc' = [proc EXCEPT ![p] = Skip(p, path)]
      PROVE  RestoreInv'
  <2>1. /\ proc'[p] = Skip(p, path)
        /\ Skip(p, path).pc = "look" /\ Skip(p, path).op = r.op
        /\ Skip(p, path).entries = r.entries /\ Skip(p, path).was = r.was
        /\ Skip(p, path).calm = r.calm
        /\ Skip(p, path).result = Without(r.result, {path})
    <3>1. proc'[p] = Skip(p, path)
      BY <1>1, <1>3, OthersStay
    <3> QED
      BY <1>1, <3>1, SkipIs
  <2>2. Restoring(p)'
    <3> SUFFICES ASSUME NEW entries, NEW result, NEW was, NEW force,
                        proc'[p].calm,
                        entries = proc'[p].entries, result = proc'[p].result,
                        was = proc'[p].was, force = proc'[p].op.force
                 PROVE  Filled(entries, result, was, force)'
      BY <2>1 DEF Restoring
    <3> DEFINE before == r.result
    <3>1. /\ entries = r.entries /\ was = r.was /\ force = r.op.force /\ r.calm
          /\ result = Without(before, {path})
      BY <2>1
    <3>2. Filled(entries, before, was, force)
      BY <1>1, <3>1 DEF Restoring
    <3>3. path \in DOMAIN before
      OBVIOUS
    <3> HIDE DEF before
    <3>4. Ended(path, entries[path], was, force)
      <4>1. path \in Sources /\ path \in DOMAIN before
        BY <3>2, <3>3, EntryMapsAre DEF Filled, Additions, Sources
      <4>2. disk[path] = was[path]
        BY <3>2, <4>1 DEF Filled
      <4> QED
        BY <1>3, <3>1, <4>2 DEF Ended
    <3>5. Filled(entries, result, was, force)
      BY <3>1, <3>2, <3>3, <3>4, FilledSkip
    <3>6. Worktree' = Worktree
      BY <1>1 DEF Worktree
    <3> QED
      BY <1>1, <3>5, <3>6 DEF Filled, Ended, Exists, Bytes
  <2> QED
    BY <1>1, <1>3, <2>2, RestoreOthers
<1>4. ASSUME NEW rec, proc' = [proc EXCEPT ![p] = rec], rec.pc = "put", rec.op = r.op,
             rec.entries = r.entries, rec.was = r.was, rec.calm = r.calm,
             rec.result = r.result, NEW next \in FirstOf(r.result), Exists(next) => r.op.force
      PROVE  RestoreInv'
  <2>1. proc'[p] = rec
    BY <1>1, <1>4, OthersStay
  <2>2. Restoring(p)'
    <3> SUFFICES ASSUME NEW entries, NEW result, NEW was, NEW force,
                        rec.calm, entries = r.entries, result = r.result,
                        was = r.was, force = r.op.force
                 PROVE  Filled(entries, result, was, force)' /\ NextIsFree(result, force)'
      BY <1>4, <2>1 DEF Restoring
    <3>1. Filled(entries, result, was, force)
      BY <1>1, <1>4 DEF Restoring
    <3>2. NextIsFree(result, force)
      <4>1. DOMAIN result \subseteq Paths
        BY <3>1, EntryMapsAre DEF Filled, Additions
      <4>2. \A path \in FirstOf(result) : path = next
        BY <1>4, <4>1, FirstOfOne
      <4> QED
        BY <1>4, <4>2 DEF NextIsFree
    <3>3. Worktree' = Worktree
      BY <1>1 DEF Worktree
    <3> QED
      BY <1>1, <3>1, <3>2, <3>3 DEF Filled, Ended, Exists, Bytes, NextIsFree
  <2> QED
    BY <1>1, <1>4, <2>2, RestoreOthers
<1> DEFINE put == [r EXCEPT !.pc = "put"]
<1>5. CASE /\ proc' = [proc EXCEPT ![p] = put]
           /\ put.pc = "put" /\ put.op = r.op /\ put.entries = r.entries
           /\ put.was = r.was /\ put.calm = r.calm /\ put.result = r.result
           /\ \E path \in FirstOf(r.result) : Exists(path) => r.op.force
  BY <1>4, <1>5
<1> QED
  BY <1>1, <1>2, <1>3, <1>5, LookDoes
LEMMA RestorePut ==
    ASSUME RestoreInv, TypeInv', NEW p \in Procs, Put(p)
    PROVE  RestoreInv'
<1> DEFINE r == proc[p]
<1>1. /\ TypeInv /\ r \in Records /\ r.pc = "put" /\ Restoring(p)
      /\ proc \in [Procs -> Records]
  BY PutDoes DEF RestoreInv, TypeInv
<1>2. CASE Done(p) /\ disk' = disk
  BY <1>1, <1>2, RestoreDone
<1>3. CASE ~(Done(p) /\ disk' = disk)
  <2>1. PICK path \in FirstOf(r.result) :
           /\ path \in DOMAIN r.result /\ path \in Paths
           /\ Bytes(r.result[path]) # None
           /\ proc' = [Disturbed EXCEPT ![p] = Skip(p, path)]
           /\ disk' = [disk EXCEPT ![path] = Bytes(r.result[path])]
    BY <1>1, <1>3, PutDoes
  <2>2. Disturbed \in [Procs -> Records]
    BY <1>1, DisturbedIs
  <2>3. proc'[p] = Skip(p, path) /\ \A q \in Procs \ {p} : proc'[q] = Disturbed[q]
    BY <2>1, <2>2
  <2>4. /\ Skip(p, path).pc = "look" /\ Skip(p, path).op = r.op
        /\ Skip(p, path).entries = r.entries /\ Skip(p, path).was = r.was
        /\ Skip(p, path).calm = r.calm
        /\ Skip(p, path).result = Without(r.result, {path})
    BY <1>1, SkipIs
  <2>5. Restoring(p)'
    <3> SUFFICES ASSUME NEW entries, NEW result, NEW was, NEW force,
                        r.calm, entries = r.entries, result = Without(r.result, {path}),
                        was = r.was, force = r.op.force,
                        NEW before, before = r.result
                 PROVE  Filled(entries, result, was, force)'
      BY <2>3, <2>4 DEF Restoring
    <3>1. Filled(entries, before, was, force) /\ NextIsFree(before, force)
      BY <1>1 DEF Restoring
    <3>2. /\ path \in FirstOf(before) /\ path \in DOMAIN before /\ path \in Paths
          /\ Bytes(before[path]) # None
          /\ disk' = [disk EXCEPT ![path] = Bytes(before[path])]
          /\ result = Without(before, {path})
      BY <2>1
    <3>3. Exists(path) => force
      BY <3>1, <3>2 DEF NextIsFree
    <3>4. TypeInv
      BY <1>1
    <3> QED
      BY <3>1, <3>2, <3>3, <3>4, FilledPut
  <2>6. ASSUME NEW q \in Procs \ {p}
        PROVE  Restoring(q)'
    <3>1. \/ proc'[q] = proc[q] /\ proc[q] = Idle
          \/ /\ proc'[q] = [proc[q] EXCEPT !.calm = FALSE]
             /\ proc'[q].calm = FALSE
      BY <1>1, <2>3, DisturbedIs
    <3>2. proc'[q].pc = "idle" \/ proc'[q].calm = FALSE
      BY <3>1, IdleIs
    <3> QED
      BY <3>2 DEF Restoring
  <2> QED
    BY <2>5, <2>6 DEF RestoreInv
<1> QED
  BY <1>2, <1>3

LEMMA RestoreWriteSource ==
    ASSUME RestoreInv, TypeInv', WriteSource
    PROVE  RestoreInv'
<1>1. proc' = Disturbed /\ TypeInv
  BY DEF WriteSource, RestoreInv
<1>2. ASSUME NEW q \in Procs
      PROVE  Restoring(q)'
  <2>1. proc'[q].pc = "idle" \/ proc'[q].calm = FALSE
    BY <1>1, DisturbedIs, IdleIs
  <2> QED
    BY <2>1 DEF Restoring
<1> QED
  BY <1>2 DEF RestoreInv

LEMMA RestoreInvariance == Spec => []RestoreInv
<1>1. ASSUME Init
      PROVE  RestoreInv
  <2>1. TypeInv /\ \A p \in Procs : proc[p].pc = "idle"
    BY <1>1, InitTypes, IdleIs DEF Init
  <2> QED
    BY <2>1 DEF RestoreInv, Restoring
<1>2. ASSUME RestoreInv, TypeInv', Next
      PROVE  RestoreInv'
  <2>1. CASE Peer
    <3>1. UNCHANGED <<disk, proc>>
      BY <2>1 DEF Peer
    <3> QED
      BY <1>2, <3>1, RestoringStays DEF RestoreInv
  <2>2. CASE WriteSource
    BY <1>2, <2>2, RestoreWriteSource
  <2>3. ASSUME NEW p \in Procs, Stage(p) \/ Clear(p) \/ Crash(p)
        PROVE  RestoreInv'
    <3>1. Done(p) /\ disk' = disk
      BY <2>3 DEF Stage, Clear, Crash
    <3> QED
      BY <1>2, <3>1, RestoreDone
  <2>4. ASSUME NEW p \in Procs, Materialize(p)
        PROVE  RestoreInv'
    <3> DEFINE rec == [proc[p] EXCEPT !.pc = "build", !.entries = Entries(proc[p].loaded),
                         !.tries = IF proc[p].op.staged THEN StagedRetries ELSE 1]
    <3>1. TypeInv /\ disk' = disk
      BY <1>2, <2>4 DEF RestoreInv, Materialize
    <3>2. CASE Done(p)
      BY <1>2, <3>1, <3>2, RestoreDone
    <3>3. CASE ~Done(p)
      <4>1. proc' = [proc EXCEPT ![p] = rec] /\ rec.pc = "build"
        BY <2>4, <3>1, <3>3, MaterializeDoes
      <4> HIDE DEF rec
      <4> QED
        BY <1>2, <3>1, <4>1, RestoreElse
    <3> QED
      BY <3>2, <3>3
  <2>5. ASSUME NEW p \in Procs, Build(p)
        PROVE  RestoreInv'
    <3>1. /\ disk' = disk
          /\ Done(p) \/ \E rec : proc' = [proc EXCEPT ![p] = rec] /\ rec.pc = "cas"
      BY <1>2, <2>5, BuildDoes DEF RestoreInv
    <3> QED
      BY <1>2, <3>1, RestoreDone, RestoreElse
  <2>6. ASSUME NEW p \in Procs, Cas(p)
        PROVE  RestoreInv'
    <3>1. /\ disk' = disk
          /\ \/ Done(p)
             \/ \E rec : proc' = [proc EXCEPT ![p] = rec] /\ rec.pc \in {"clear", "build"}
      BY <1>2, <2>6, CasDoes DEF RestoreInv
    <3> QED
      BY <1>2, <3>1, RestoreDone, RestoreElse
  <2>7. ASSUME NEW p \in Procs, Begin(p) \/ Look(p) \/ Put(p)
        PROVE  RestoreInv'
    BY <1>2, <2>7, RestoreBegin, RestoreLook, RestorePut
  <2> QED
    BY <1>2, <2>1, <2>2, <2>3, <2>4, <2>5, <2>6, <2>7 DEF Next
<1>3. ASSUME RestoreInv, TypeInv', UNCHANGED vars
      PROVE  RestoreInv'
  <2>1. UNCHANGED <<disk, proc>>
    BY <1>3 DEF vars
  <2> QED
    BY <1>3, <2>1, RestoringStays DEF RestoreInv
<1> QED
  BY <1>1, <1>2, <1>3, TypeInvariance, PTL DEF Spec

\* restore (repository_ops.py), undisturbed, ends with each of its files in
\* place, overwrites nothing without --force, and touches no other file, in
\* whatever order a pointer and the file it points to come.
THEOREM RestoreFills == Spec => []RestoreFillsTheGaps
<1>1. ASSUME RestoreInv, NEW p \in Procs, NEW r, r = proc[p],
             r.pc = "look", r.result = NoFiles, r.calm, NEW q \in Paths
      PROVE  IF q \notin DOMAIN r.entries \/ (r.was[q] # None /\ ~r.op.force)
             THEN disk[q] = r.was[q]
             ELSE Exists(q) /\ (disk[q] # None => disk[q] \in
                    {Bytes(r.entries[q])} \union
                    (IF r.entries[q].mode = "content" THEN {} ELSE {r.was[r.entries[q].source]}))
  <2>1. Filled(r.entries, NoFiles, r.was, r.op.force)
    BY <1>1 DEF RestoreInv, Restoring
  <2>2. q \in Sources /\ q \notin DOMAIN NoFiles
    BY NoFilesIs DEF Sources
  <2>3. q \notin DOMAIN r.entries => disk[q] = r.was[q]
    BY <2>1, <2>2 DEF Filled
  <2>4. q \in DOMAIN r.entries => Ended(q, r.entries[q], r.was, r.op.force)
    BY <2>1, <2>2 DEF Filled
  <2> QED
    BY <2>3, <2>4 DEF Ended
<1>2. RestoreInv => RestoreFillsTheGaps
  BY <1>1 DEF RestoreFillsTheGaps
<1> QED
  BY <1>2, RestoreInvariance, PTL
-----------------------------------------------------------------------------
(* Additions that clash.                                                   *)

\* Of three names in a row, each less than the next, the first is less than
\* the last, or the paths that end with them decide.
LEMMA NamesInOrder ==
    ASSUME NEW p \in Path, NEW q \in Path, NEW r \in Path, NEW i \in Nat,
           Differ(p, q, i), Differ(q, r, i), NameLess(p, q, i), NameLess(q, r, i)
    PROVE  IF p[i] = r[i] THEN Len(p) = i /\ Len(r) > i ELSE NameLess(p, r, i)
<1> DEFINE a == p[i]
           b == q[i]
           c == r[i]
<1>1. a \in Nat /\ b \in Nat /\ c \in Nat /\ a # b /\ b # c /\ i <= Len(p)
  <2>1. /\ i \in 1 .. Len(p) /\ i \in 1 .. Len(q) /\ i \in 1 .. Len(r)
        /\ p[i] # q[i] /\ q[i] # r[i]
    BY DEF Differ
  <2>2. p[i] \in Nat /\ q[i] \in Nat /\ r[i] \in Nat
    BY SMTT(30), <2>1 DEF Path
  <2>3. i <= Len(p)
    BY <2>1 DEF Path
  <2> QED
    BY <2>1, <2>2, <2>3
<1>2. /\ Len(p) \in Nat /\ Len(q) \in Nat /\ Len(r) \in Nat
  BY DEF Path
<1>3. \A x, y, z \in Nat : x < y /\ y < z /\ <<z, x>> \in Extends => <<y, x>> \in Extends
  <2>1. ASSUME NEW x \in Nat, NEW y \in Nat, NEW z \in Nat, x < y, y < z, <<z, x>> \in Extends
        PROVE  <<y, x>> \in Extends
    <3>1. <<z, x>>[1] = z /\ <<z, x>>[2] = x /\ y \in x + 1 .. z - 1
      BY <2>1
    <3> QED
      BY <2>1, <3>1, FilePathsAssumption
  <2> QED
    BY <2>1
<1>4. \A x, y, z \in Nat : <<z, y>> \in Extends /\ <<y, x>> \in Extends => <<z, x>> \in Extends
  <2>1. ASSUME NEW x \in Nat, NEW y \in Nat, NEW z \in Nat,
               <<z, y>> \in Extends, <<y, x>> \in Extends
        PROVE  <<z, x>> \in Extends
    <3>1. <<z, y>>[1] = z /\ <<z, y>>[2] = y /\ <<y, x>>[1] = y /\ <<y, x>>[2] = x
      OBVIOUS
    <3> QED
      BY <2>1, <3>1, FilePathsAssumption
  <2> QED
    BY <2>1
<1>5. /\ IF a < b THEN ~(Len(p) > i /\ <<b, a>> \in Extends) ELSE Len(q) > i /\ <<a, b>> \in Extends
      /\ IF b < c THEN ~(Len(q) > i /\ <<c, b>> \in Extends) ELSE Len(r) > i /\ <<b, c>> \in Extends
  BY DEF NameLess
<1> HIDE DEF a, b, c
<1>6. CASE a = c
  <2>1. Len(r) > i /\ ~(Len(p) > i)
    BY <1>1, <1>5, <1>6
  <2> QED
    BY <1>1, <1>2, <1>6, <2>1 DEF a, c
<1>7. CASE a # c
  <2>1. IF a < c THEN ~(Len(p) > i /\ <<c, a>> \in Extends) ELSE Len(r) > i /\ <<a, c>> \in Extends
    <3>1. CASE a < b /\ b < c
      <4>1. <<c, a>> \in Extends => <<b, a>> \in Extends
        BY <1>1, <1>3, <3>1
      <4> QED
        BY <1>1, <1>5, <3>1, <4>1
    <3>2. CASE a < b /\ ~(b < c)
      <4>1. c < b /\ <<b, c>> \in Extends /\ Len(r) > i
        BY <1>1, <1>5, <3>2
      <4>2. <<c, a>> \in Extends => <<b, a>> \in Extends
        BY <1>1, <1>4, <4>1
      <4>3. c < a => <<a, c>> \in Extends
        BY <1>1, <1>3, <3>2, <4>1
      <4> QED
        BY <1>1, <1>5, <1>7, <3>2, <4>1, <4>2, <4>3
    <3>3. CASE ~(a < b) /\ b < c
      <4>1. b < a /\ <<a, b>> \in Extends /\ ~(<<c, b>> \in Extends)
        BY <1>1, <1>5, <3>3
      <4>2. ~(<<c, a>> \in Extends)
        BY <1>1, <1>4, <4>1
      <4>3. ~(c < a)
        BY <1>1, <1>3, <3>3, <4>1
      <4> QED
        BY <1>1, <1>7, <4>2, <4>3
    <3>4. CASE ~(a < b) /\ ~(b < c)
      <4>1. b < a /\ c < b /\ <<a, b>> \in Extends /\ <<b, c>> \in Extends /\ Len(r) > i
        BY <1>1, <1>5, <3>4
      <4>2. <<a, c>> \in Extends
        BY <1>1, <1>4, <4>1
      <4> QED
        BY <1>1, <4>1, <4>2
    <3> QED
      BY <3>1, <3>2, <3>3, <3>4
  <2> QED
    BY <1>7, <2>1 DEF NameLess, a, c
<1> QED
  BY <1>6, <1>7

\* The order of the path strings is an order: what restore and
\* _reject_conflicting_adds sort by.
LEMMA PathLessTrans ==
    ASSUME NEW p \in Path, NEW q \in Path, NEW r \in Path, PathLess(p, q), PathLess(q, r)
    PROVE  PathLess(p, r)
<1>1. Len(p) \in Nat /\ Len(q) \in Nat /\ Len(r) \in Nat
  BY DEF Path
<1>2. CASE Within(q, p) /\ Within(r, q)
  <2>1. Within(r, p)
    BY <1>2, WithinTrans
  <2>2. p # r
    <3>1. ASSUME p = r
          PROVE  FALSE
      <4>1. p = q
        BY <1>2, <3>1, WithinBoth
      <4> QED
        BY <4>1, PathLessOnce
    <3> QED
      BY <3>1
  <2> QED
    BY <2>1, <2>2, PathLessIs
<1>3. ASSUME Within(q, p), NEW i, Differ(q, r, i), NameLess(q, r, i)
      PROVE  PathLess(p, r)
  <2>1. Len(p) <= Len(q) /\ \A j \in 1 .. Len(p) : q[j] = p[j]
    BY <1>3, WithinEach
  <2>2. CASE i > Len(p)
    <3>1. Len(p) < Len(r) /\ \A j \in 1 .. Len(p) : r[j] = p[j]
      BY <1>1, <1>3, <2>1, <2>2 DEF Differ
    <3>2. Within(r, p) /\ p # r
      BY <1>1, <3>1, WithinEach
    <3> QED
      BY <3>2, PathLessIs
  <2>3. CASE ~(i > Len(p))
    <3>1. Differ(p, r, i) /\ p[i] = q[i]
      BY <1>1, <1>3, <2>1, <2>3 DEF Differ
    <3>2. NameLess(p, r, i)
      BY <1>1, <1>3, <2>1, <3>1 DEF NameLess, Differ
    <3> QED
      BY <3>1, <3>2, PathLessIs
  <2> QED
    BY <2>2, <2>3
<1>4. ASSUME Within(r, q), NEW i, Differ(p, q, i), NameLess(p, q, i)
      PROVE  PathLess(p, r)
  <2>1. Len(q) <= Len(r) /\ \A j \in 1 .. Len(q) : r[j] = q[j]
    BY <1>4, WithinEach
  <2>2. Differ(p, r, i) /\ r[i] = q[i]
    BY <1>1, <1>4, <2>1 DEF Differ
  <2>3. NameLess(p, r, i)
    BY <1>1, <1>4, <2>1, <2>2 DEF NameLess, Differ
  <2> QED
    BY <2>2, <2>3, PathLessIs
<1>5. ASSUME NEW i, Differ(p, q, i), NameLess(p, q, i),
             NEW k, Differ(q, r, k), NameLess(q, r, k)
      PROVE  PathLess(p, r)
  <2>1. i \in 1 .. Len(p) /\ i \in 1 .. Len(q) /\ k \in 1 .. Len(q) /\ k \in 1 .. Len(r)
    BY <1>5 DEF Differ
  <2>2. CASE i < k
    <3>1. Differ(p, r, i) /\ r[i] = q[i]
      BY <1>1, <1>5, <2>1, <2>2 DEF Differ
    <3>2. NameLess(p, r, i)
      BY <1>1, <1>5, <2>1, <2>2, <3>1 DEF NameLess
    <3> QED
      BY <3>1, <3>2, PathLessIs
  <2>3. CASE k < i
    <3>1. Differ(p, r, k) /\ p[k] = q[k]
      BY <1>1, <1>5, <2>1, <2>3 DEF Differ
    <3>2. NameLess(p, r, k)
      BY <1>1, <1>5, <2>1, <2>3, <3>1 DEF NameLess
    <3> QED
      BY <3>1, <3>2, PathLessIs
  <2>4. CASE i = k
    <3>1. IF p[i] = r[i] THEN Len(p) = i /\ Len(r) > i ELSE NameLess(p, r, i)
      BY <1>1, <1>5, <2>1, <2>4, NamesInOrder
    <3>2. \A j \in 1 .. i - 1 : p[j] = r[j]
      BY <1>5, <2>4 DEF Differ
    <3>3. CASE p[i] = r[i]
      <4>1. Len(p) < Len(r) /\ \A j \in 1 .. Len(p) : r[j] = p[j]
        BY <1>1, <2>1, <3>1, <3>2, <3>3
      <4>2. Within(r, p) /\ p # r
        BY <1>1, <4>1, WithinEach
      <4> QED
        BY <4>2, PathLessIs
    <3>4. CASE p[i] # r[i]
      <4>1. Differ(p, r, i)
        BY <2>1, <2>4, <3>2, <3>4 DEF Differ
      <4> QED
        BY <3>1, <3>4, <4>1, PathLessIs
    <3> QED
      BY <3>3, <3>4
  <2> QED
    BY <1>1, <2>1, <2>2, <2>3, <2>4
<1> QED
  BY <1>2, <1>3, <1>4, <1>5, PathLessIs
\* After an addition comes a next one, if any comes after it.
LEMMA NextAddExists ==
    ASSUME NEW adds \in SUBSET Paths, NEW p \in adds, NEW q \in adds, PathLess(p, q)
    PROVE  \E r \in adds : NextAdd(adds, p, r) /\ (r = q \/ PathLess(r, q))
<1> DEFINE between == {r \in adds : PathLess(p, r) /\ (r = q \/ PathLess(r, q))}
           below(r) == {s \in between : PathLess(s, r)}
           T == {Cardinality(below(r)) : r \in between}
<1>1. \A r \in adds : r \in Path
  BY PathsAre
<1>2. IsFiniteSet(between)
  BY StagingAssumption, FS_Subset
<1>3. \A r \in between : IsFiniteSet(below(r)) /\ Cardinality(below(r)) \in Nat
  BY <1>2, FS_Subset, FS_CardinalityType
<1>4. q \in between
  OBVIOUS
<1>5. T \in SUBSET Nat /\ T # {}
  BY <1>3, <1>4
<1>6. PICK r \in between : \A s \in between : Cardinality(below(r)) <= Cardinality(below(s))
  <2>1. PICK m \in T : \A n \in T : m <= n
    BY <1>5, LeastOf
  <2> QED
    BY <2>1
<1>7. ASSUME NEW s \in adds, PathLess(p, s), PathLess(s, r)
      PROVE  FALSE
  <2>1. s \in between /\ s \in below(r)
    BY <1>1, <1>7, PathLessTrans
  <2>2. below(s) \in SUBSET below(r)
    BY <1>1, <1>7, PathLessTrans
  <2>3. s \notin below(s)
    BY <1>1, PathLessOnce
  <2>4. /\ Cardinality(below(s)) <= Cardinality(below(r))
        /\ Cardinality(below(r)) = Cardinality(below(s)) => below(r) = below(s)
    BY <1>3, <2>2, FS_Subset
  <2>5. Cardinality(below(r)) <= Cardinality(below(s))
    BY <1>6, <2>1
  <2>6. Cardinality(below(r)) = Cardinality(below(s))
    BY <1>3, <2>1, <2>4, <2>5
  <2> HIDE DEF below
  <2> QED
    BY <2>1, <2>3, <2>4, <2>6
<1>8. r \in adds /\ PathLess(p, r) /\ (r = q \/ PathLess(r, q))
  OBVIOUS
<1> QED
  BY <1>7, <1>8 DEF NextAdd

\* Where _reject_conflicting_adds accepts the additions, what hides a clash
\* is an addition that comes between the two and is not below the first.
LEMMA ClashIsHidden ==
    ASSUME staged \in Changes, NoConflictingAdds(staged),
           NEW p \in AddsOf(staged), NEW q \in AddsOf(staged), Within(q, p), p # q
    PROVE  Hidden(p, q)
<1>1. AddsOf(staged) \in SUBSET Paths
  BY ChangesAre DEF AddsOf
<1>2. PathLess(p, q)
  BY DEF PathLess
<1>3. PICK r \in AddsOf(staged) : NextAdd(AddsOf(staged), p, r) /\ (r = q \/ PathLess(r, q))
  BY <1>1, <1>2, NextAddExists
<1>4. ~Within(r, p)
  BY <1>3 DEF NoConflictingAdds
<1> QED
  BY <1>3, <1>4 DEF Hidden, NextAdd

\* What is staged, and what the processes have loaded of it, was accepted.
ClashInv ==
    ~unchecked => /\ NoConflictingAdds(staged)
                  /\ \A p \in Procs : NoConflictingAdds(proc[p].loaded)

LEMMA NothingClashes == NoConflictingAdds(NoFiles) /\ Idle.loaded = NoFiles
BY NoChangesIs, IdleIs DEF NoConflictingAdds, Idle

\* Steps that stage nothing.
LEMMA ClashStays ==
    ASSUME ClashInv, unchecked' = unchecked, staged' = staged \/ staged' = NoFiles,
           \A p \in Procs : \/ proc'[p].loaded = proc[p].loaded
                            \/ proc'[p].loaded \in {staged, NoFiles}
    PROVE  ClashInv'
<1> SUFFICES ASSUME ~unchecked
             PROVE  /\ NoConflictingAdds(staged')
                    /\ \A p \in Procs : NoConflictingAdds(proc'[p].loaded)
  BY DEF ClashInv
<1>1. NoConflictingAdds(staged) /\ \A p \in Procs : NoConflictingAdds(proc[p].loaded)
  BY DEF ClashInv
<1> QED
  BY <1>1, NothingClashes

LEMMA ClashDone ==
    ASSUME ClashInv, TypeInv, NEW p \in Procs, Done(p), unchecked' = unchecked,
           staged' = staged \/ staged' = NoFiles
    PROVE  ClashInv'
<1>1. proc'[p] = Idle /\ \A q \in Procs \ {p} : proc'[q] = proc[q]
  BY OthersStay DEF Done
<1> QED
  BY <1>1, NothingClashes, ClashStays

LEMMA ClashGoesOn ==
    ASSUME ClashInv, TypeInv, NEW p \in Procs, NEW rec, proc' = [proc EXCEPT ![p] = rec],
           rec.loaded = proc[p].loaded, UNCHANGED area
    PROVE  ClashInv'
<1>1. proc'[p] = rec /\ \A q \in Procs \ {p} : proc'[q] = proc[q]
  BY OthersStay
<1> QED
  BY <1>1, ClashStays DEF area

\* add is checked; rm, unless it takes back an addition, leaves them as they are.
LEMMA ClashStage ==
    ASSUME ClashInv, TypeInv, NEW p \in Procs, Stage(p)
    PROVE  ClashInv'
<1> DEFINE op == proc[p].op
           own == StageChanges(op, FilesAt(head))
           loaded == proc[p].loaded
           changes == Over(own, loaded)
<1>1. Done(p) /\ proc[p].pc = "stage" /\ op.kind \in {"add", "rm", "mv"}
  BY DEF Stage, TypeInv, Working
<1>2. CASE UNCHANGED area
  BY <1>1, <1>2, ClashDone DEF area
<1>3. CASE ~UNCHANGED area
  <2>1. /\ ~StageRefused(op, FilesAt(head), changes)
        /\ staged' = changes
        /\ unchecked' = \/ unchecked
                        \/ op.kind = "mv"
                        \/ op.kind = "rm" /\ op.path \in AddsOf(loaded)
    BY <1>3 DEF Stage
  <2> SUFFICES ASSUME ~unchecked, op.kind # "mv",
                      op.kind = "rm" => op.path \notin AddsOf(loaded)
               PROVE  /\ NoConflictingAdds(staged')
                      /\ \A q \in Procs : NoConflictingAdds(proc'[q].loaded)
    BY <2>1 DEF ClashInv
  <2>2. \A q \in Procs : NoConflictingAdds(proc[q].loaded)
    BY DEF ClashInv
  <2>3. \A q \in Procs : NoConflictingAdds(proc'[q].loaded)
    BY <1>1, <2>2, OthersStay, NothingClashes DEF Done
  <2>4. CASE op.kind = "add"
    BY <2>1, <2>3, <2>4 DEF StageRefused
  <2>5. CASE op.kind = "rm"
    <3>1. own = [q \in {op.path} |-> Remove]
      BY <2>5 DEF StageChanges
    <3>2. AddsOf(changes) = AddsOf(loaded)
      <4>1. /\ DOMAIN changes = {op.path} \union DOMAIN loaded
            /\ changes[op.path] = Remove
            /\ \A q \in DOMAIN loaded \ {op.path} : changes[q] = loaded[q]
        BY <3>1 DEF Over
      <4>2. Remove.action # "add"
        BY DEF Remove
      <4> HIDE DEF changes, loaded
      <4> QED
        BY <2>5, <4>1, <4>2 DEF AddsOf
    <3>3. NoConflictingAdds(loaded)
      BY <2>2
    <3>4. NoConflictingAdds(changes)
      BY <3>2, <3>3 DEF NoConflictingAdds
    <3> QED
      BY <2>1, <2>3, <3>4
  <2> QED
    BY <1>1, <2>4, <2>5
<1> QED
  BY <1>2, <1>3

LEMMA ClashInvariance == Spec => []ClashInv
<1>1. ASSUME Init
      PROVE  ClashInv
  <2>1. staged = NoFiles /\ \A p \in Procs : proc[p] = Idle
    BY <1>1 DEF Init
  <2> QED
    BY <2>1, NothingClashes DEF ClashInv
<1>2. ASSUME ClashInv, TypeInv, Next
      PROVE  ClashInv'
  <2>1. CASE Peer
    <3>1. UNCHANGED <<area, proc>>
      BY <2>1 DEF Peer
    <3> QED
      BY <1>2, <3>1, ClashStays DEF area
  <2>2. CASE WriteSource
    <3>1. UNCHANGED area /\ proc' = Disturbed
      BY <2>2 DEF WriteSource
    <3>2. \A q \in Procs : proc'[q].loaded = proc[q].loaded
      BY <1>2, <3>1, DisturbedGoesOn
    <3> QED
      BY <1>2, <3>1, <3>2, ClashStays DEF area
  <2>3. ASSUME NEW p \in Procs, Clear(p) \/ Crash(p)
        PROVE  ClashInv'
    <3>1. Done(p) /\ unchecked' = unchecked /\ staged' \in {staged, NoFiles}
      BY <2>3 DEF Clear, Crash, area
    <3> QED
      BY <1>2, <3>1, ClashDone
  <2>4. ASSUME NEW p \in Procs, Begin(p)
        PROVE  ClashInv'
    <3>1. PICK op \in Ops[p] : proc' = [proc EXCEPT ![p] = Begun(op)]
      BY <2>4, BeginDoes
    <3>2. UNCHANGED area /\ op \in OpSet
      BY <2>4, BeginDoes, ProcOps
    <3>3. Begun(op).loaded \in {staged, NoFiles}
      BY <1>2, <3>2, BegunIs
    <3>4. proc'[p] = Begun(op) /\ \A q \in Procs \ {p} : proc'[q] = proc[q]
      BY <1>2, <3>1, OthersStay
    <3> HIDE DEF Begun
    <3> QED
      BY <1>2, <3>2, <3>3, <3>4, ClashStays DEF area
  <2>5. ASSUME NEW p \in Procs, Stage(p)
        PROVE  ClashInv'
    BY <1>2, <2>5, ClashStage
  <2>6. ASSUME NEW p \in Procs, Materialize(p) \/ Build(p) \/ Cas(p) \/ Look(p)
        PROVE  ClashInv'
    <3>1. UNCHANGED area
      BY <2>6 DEF Materialize, Build, Cas, Look
    <3>2. proc[p] \in Records
      BY <1>2 DEF TypeInv
    <3>3. \/ Done(p)
          \/ \E rec : proc' = [proc EXCEPT ![p] = rec] /\ rec.loaded = proc[p].loaded
      <4>1. CASE Materialize(p)
        <5> DEFINE rec == [proc[p] EXCEPT !.pc = "build", !.entries = Entries(proc[p].loaded),
                             !.tries = IF proc[p].op.staged THEN StagedRetries ELSE 1]
        <5>1. Done(p) \/ (proc' = [proc EXCEPT ![p] = rec] /\ rec.loaded = proc[p].loaded)
          <6>1. CASE Done(p)
            BY <6>1
          <6>2. CASE ~Done(p)
            BY <1>2, <4>1, <6>2, MaterializeDoes
          <6> QED
            BY <6>1, <6>2
        <5> HIDE DEF rec
        <5> QED
          BY <5>1
      <4>2. CASE Build(p)
        BY <1>2, <4>2, BuildDoes
      <4>3. CASE Cas(p)
        BY <1>2, <4>3, CasDoes
      <4>4. CASE Look(p)
        <5> DEFINE put == [proc[p] EXCEPT !.pc = "put"]
        <5>1. \A path : Skip(p, path).loaded = proc[p].loaded
          BY <3>2, SkipIs
        <5>2. \/ Done(p)
              \/ \E path : proc' = [proc EXCEPT ![p] = Skip(p, path)]
              \/ proc' = [proc EXCEPT ![p] = put] /\ put.loaded = proc[p].loaded
          BY <1>2, <4>4, LookDoes
        <5> HIDE DEF put
        <5> QED
          BY <5>1, <5>2
      <4> QED
        BY <2>6, <4>1, <4>2, <4>3, <4>4
    <3>4. unchecked' = unchecked /\ staged' = staged
      BY <3>1 DEF area
    <3> QED
      BY <1>2, <3>1, <3>3, <3>4, ClashDone, ClashGoesOn
  <2>7. ASSUME NEW p \in Procs, Put(p)
        PROVE  ClashInv'
    <3>1. UNCHANGED area /\ proc[p] \in Records
      BY <1>2, <2>7, PutDoes DEF TypeInv
    <3>2. CASE Done(p)
      BY <1>2, <3>1, <3>2, ClashDone DEF area
    <3>3. CASE ~Done(p)
      <4>1. PICK path : proc' = [Disturbed EXCEPT ![p] = Skip(p, path)]
        BY <1>2, <2>7, <3>3, PutDoes
      <4>2. Disturbed \in [Procs -> Records]
        BY <1>2, DisturbedIs
      <4>3. proc'[p] = Skip(p, path) /\ \A q \in Procs \ {p} : proc'[q] = Disturbed[q]
        BY <4>1, <4>2
      <4>4. proc'[p].loaded = proc[p].loaded
        <5>1. Skip(p, path).loaded = proc[p].loaded
          BY <3>1, SkipIs
        <5> QED
          BY <4>3, <5>1
      <4>5. \A q \in Procs \ {p} : proc'[q].loaded = proc[q].loaded
        BY <1>2, <4>3, DisturbedGoesOn
      <4> QED
        BY <1>2, <3>1, <4>4, <4>5, ClashStays DEF area
    <3> QED
      BY <3>2, <3>3
  <2> QED
    BY <1>2, <2>1, <2>2, <2>3, <2>4, <2>5, <2>6, <2>7 DEF Next
<1>3. ASSUME ClashInv, UNCHANGED vars
      PROVE  ClashInv'
  BY <1>3 DEF vars, ClashInv
<1> QED
  BY <1>1, <1>2, <1>3, TypeInvariance, PTL DEF Spec

\* _reject_conflicting_adds compares each addition with the next one only, and
\* is called by add alone.  For any names and any number of additions, that
\* misses a clash only where another addition hides it, or once mv has staged
\* or rm has taken back something.
THEOREM ClashesCaught == Spec => []ClashesAreCaught
<1>1. ASSUME TypeInv, ClashInv
      PROVE  ClashesAreCaught
  BY <1>1, ClashIsHidden DEF ClashesAreCaught, ClashInv, TypeInv
<1> QED
  BY <1>1, TypeInvariance, ClashInvariance, PTL

=============================================================================
