---------------------------- MODULE OrganizeProofs ----------------------------
(***************************************************************************)
(* Proof that organize_directory (module Organize) never loses a file, for *)
(* every tree, every listing order, every set of files that cannot be      *)
(* moved and every bound on the free-name loop.                            *)
(***************************************************************************)
EXTENDS Organize, WellFoundedInduction, FiniteSetTheorems, SequenceTheorems, TLAPS

USE MaxCounterAssumption

(***************************************************************************)
(* When some candidate below the bound is free, the first free one is:     *)
(* the while loop never moves a file onto an existing path.                *)
(***************************************************************************)
LEMMA DestPathFree ==
    ASSUME NEW f, NEW dir, NEW n,
           \E k \in 0..MaxCounter : Free(f, dir, n, k)
    PROVE  DestPath(f, dir, n) \notin DOMAIN f
<1>. DEFINE T == {k \in 0..MaxCounter : Free(f, dir, n, k)}
            R == OpToRel(<, Nat)
<1>1. T \subseteq Nat /\ T # {}
  OBVIOUS
<1>2. PICK m \in T : \A y \in T : ~(<<y, m>> \in R)
  BY <1>1, WFMin, NatLessThanWellFounded
<1>3. /\ Free(f, dir, n, m)
      /\ \A j \in 0..(m - 1) : ~Free(f, dir, n, j)
  <2>1. SUFFICES ASSUME NEW j \in 0..(m - 1), Free(f, dir, n, j) PROVE FALSE
    BY <1>2
  <2>2. j \in T /\ <<j, m>> \in R
    BY <2>1 DEF OpToRel
  <2>. QED
    BY <1>2, <2>2
<1>4. DEFINE k == CHOOSE k \in 0..MaxCounter :
                      /\ Free(f, dir, n, k)
                      /\ \A j \in 0..(k - 1) : ~Free(f, dir, n, j)
<1>5. Free(f, dir, n, k)
  BY <1>3
<1>. QED
  BY <1>5 DEF DestPath, Free

\* os.makedirs only adds a directory: every file stays where it was.
LEMMA MakeDirsKeeps ==
    ASSUME NEW f, NEW dir
    PROVE  Range(f) \subseteq Range(MakeDirs(f, dir))
BY DEF MakeDirs, Range

\* A move onto a free path keeps every file the tree held.
LEMMA MoveToKeeps ==
    ASSUME NEW f, NEW src, NEW dst, dst \notin DOMAIN f
    PROVE  Range(f) \subseteq Range(MoveTo(f, src, dst))
<1>. SUFFICES ASSUME NEW q \in DOMAIN f PROVE f[q] \in Range(MoveTo(f, src, dst))
  BY DEF Range
<1>1. CASE q = src
  BY <1>1 DEF MoveTo, Range
<1>2. CASE q # src
  BY <1>2 DEF MoveTo, Range
<1>. QED
  BY <1>1, <1>2

LEMMA InitFilesKept == Init => FilesKept
BY InitFSAssumption DEF Init, FilesKept

(***************************************************************************)
(* Every step keeps every file: Begin only adds _logs, a skipped or        *)
(* aborting iteration changes nothing, and a move goes to a free path.     *)
(***************************************************************************)
LEMMA NextFilesKept == FilesKept /\ [Next]_vars => FilesKept'
<1>. SUFFICES ASSUME FilesKept, [Next]_vars PROVE FilesKept'
  OBVIOUS
<1>1. CASE Begin
  <2>. DEFINE logs == <<FolderName(LogsStem)>>
  <2>1. fs' = fs \/ fs' = MakeDirs(fs, logs)
    BY <1>1 DEF Begin
  <2>. QED
    BY <2>1, MakeDirsKeeps DEF FilesKept
<1>2. CASE OrganizeItem
  <2>. DEFINE n == listing[next]
              src == <<n>>
              dir == FolderPath(n)
              f1 == MakeDirs(fs, dir)
  <2>1. CASE fs[src] = Dir \/ (dir # <<>> /\ dir \in DOMAIN fs /\ fs[dir] # Dir)
    BY <1>2, <2>1 DEF OrganizeItem, FilesKept
  <2>2. CASE ~(fs[src] = Dir \/ (dir # <<>> /\ dir \in DOMAIN fs /\ fs[dir] # Dir))
    <3>1. /\ \E k \in 0..MaxCounter : Free(f1, dir, n, k)
          /\ MoveFile(f1, src, DestPath(f1, dir, n))
      BY <1>2, <2>2 DEF OrganizeItem
    <3>2. DestPath(f1, dir, n) \notin DOMAIN f1
      BY <3>1, DestPathFree
    <3>3. fs' = f1 \/ fs' = MoveTo(f1, src, DestPath(f1, dir, n))
      BY <3>1 DEF MoveFile
    <3>4. Range(fs) \subseteq Range(f1)
      BY MakeDirsKeeps
    <3>. QED
      BY <3>2, <3>3, <3>4, MoveToKeeps DEF FilesKept
  <2>. QED
    BY <2>1, <2>2
<1>3. CASE Finish \/ UNCHANGED vars
  BY <1>3 DEF Finish, vars, FilesKept
<1>. QED
  BY <1>1, <1>2, <1>3 DEF Next

(***************************************************************************)
(* organize_directory never loses a file: whatever the folders held, the   *)
(* exists loop keeps every shutil.move off an existing path.               *)
(***************************************************************************)
THEOREM FilesKeptHolds == Spec => []FilesKept
BY InitFilesKept, NextFilesKept, PTL DEF Spec

-----------------------------------------------------------------------------
(***************************************************************************)
(* Why the summary is right.  The listing is a one-to-one list of the top *)
(* names; the names the loop has not reached yet still hold what the      *)
(* snapshot saw; each handled file is where OrganizedOnDone wants it; and *)
(* moved_count counts the handled files that were not busy.               *)
(***************************************************************************)
\* The names the `for` loop has handled.
Handled == {listing[i] : i \in 1..(next - 1)}

\* Path p is where the file the listed name n named must end up.
PlacedAt(n, p) ==
    IF snapshot[n] \in Busy THEN p = <<n>>
    ELSE /\ Front(p) = FolderPath(n)
         /\ Last(p).stem = n.stem
         /\ IsPrefix(n.sfx, Last(p).sfx)

\* Each file is at one path of tree f.
OneHolder(f) == \A p, q \in DOMAIN f : f[p] = f[q] /\ f[p] \in Files => p = q

LoopState ==
    /\ listing \in Seq(Names)
    /\ IsInjective(listing)
    /\ next \in 1..(Len(listing) + 1)
    /\ DOMAIN snapshot \subseteq Range(listing)
    /\ \A n \in DOMAIN snapshot : snapshot[n] \in Files
    /\ IsInjective(snapshot)
    /\ \A i \in next..Len(listing) :
          /\ <<listing[i]>> \in DOMAIN fs
          /\ fs[<<listing[i]>>] = IF listing[i] \in DOMAIN snapshot
                                  THEN snapshot[listing[i]] ELSE Dir
    /\ \A n \in DOMAIN snapshot \cap Handled :
          \E p \in DOMAIN fs : fs[p] = snapshot[n] /\ PlacedAt(n, p)
    /\ moved_count = Cardinality({n \in DOMAIN snapshot \cap Handled : snapshot[n] \notin Busy})

OInv ==
    /\ OneHolder(fs)
    /\ phase \in {"pick", "loop", "declined", "done", "aborted"}
    /\ phase = "pick" => fs = InitFS /\ next = 1 /\ moved_count = 0
    /\ phase \in {"loop", "done"} => LoopState
    /\ phase = "done" => next = Len(listing) + 1

\* os.makedirs keeps every path and what it holds, and adds only `dir`.
LEMMA MakeDirsFacts ==
    ASSUME NEW f, NEW dir
    PROVE  LET g == MakeDirs(f, dir) IN
           /\ DOMAIN f \subseteq DOMAIN g
           /\ DOMAIN g \subseteq DOMAIN f \cup {dir}
           /\ \A p \in DOMAIN f : g[p] = f[p]
           /\ \A p \in DOMAIN g \ DOMAIN f : g[p] = Dir
BY DEF MakeDirs

\* shutil.move: dst holds what src held, src nothing, the rest is kept.
LEMMA MoveToFacts ==
    ASSUME NEW f, NEW src, NEW dst
    PROVE  LET g == MoveTo(f, src, dst) IN
           /\ DOMAIN g = (DOMAIN f \ {src}) \cup {dst}
           /\ g[dst] = f[src]
           /\ \A p \in DOMAIN g \ {dst} : g[p] = f[p]
BY DEF MoveTo

LEMMA MakeDirsOneHolder ==
    ASSUME NEW f, NEW dir, OneHolder(f)
    PROVE  OneHolder(MakeDirs(f, dir))
BY DirAssumption, MakeDirsFacts DEF OneHolder

LEMMA MoveToOneHolder ==
    ASSUME NEW f, NEW src \in DOMAIN f, NEW dst, dst \notin DOMAIN f, OneHolder(f)
    PROVE  OneHolder(MoveTo(f, src, dst))
<1>. DEFINE g == MoveTo(f, src, dst)
<1>1. SUFFICES ASSUME NEW p \in DOMAIN g, NEW q \in DOMAIN g, g[p] = g[q], g[p] \in Files
               PROVE  p = q
  BY DEF OneHolder
<1>2. \A x \in DOMAIN g : x = dst \/ (x \in DOMAIN f /\ x # src /\ g[x] = f[x])
  BY DEF MoveTo
<1>3. g[dst] = f[src]
  BY DEF MoveTo
<1>4. CASE p = dst /\ q = dst
  BY <1>4
<1>5. CASE p # dst /\ q # dst
  BY <1>1, <1>2, <1>5 DEF OneHolder
<1>6. CASE p = dst /\ q # dst
  <2>1. q \in DOMAIN f /\ q # src /\ f[q] = f[src] /\ f[src] \in Files
    BY <1>1, <1>2, <1>3, <1>6
  <2>. QED
    BY <2>1 DEF OneHolder
<1>7. CASE p # dst /\ q = dst
  <2>1. p \in DOMAIN f /\ p # src /\ f[p] = f[src] /\ f[src] \in Files
    BY <1>1, <1>2, <1>3, <1>7
  <2>. QED
    BY <2>1 DEF OneHolder
<1>. QED
  BY <1>4, <1>5, <1>6, <1>7

\* A one-to-one listing of a finite set lists all of it.
LEMMA SetToSeqsOnto ==
    ASSUME NEW S, IsFiniteSet(S), NEW s \in SetToSeqs(S)
    PROVE  Range(s) = S
<1>. DEFINE N == Cardinality(S)
<1>1. N \in Nat /\ IsFiniteSet(1..N) /\ Cardinality(1..N) = N
  BY FS_CardinalityType, FS_Interval
<1>2. s \in Injection(1..N, S)
  BY DEF SetToSeqs, Injection, IsInjective
<1>3. s \in Surjection(1..N, S)
  BY <1>1, <1>2, FS_Injection
<1>. QED
  BY <1>3 DEF Surjection, Range

\* A folder path of one name with a file name appended: its front is the
\* folder, its last element the file name.
LEMMA FrontLastOfPair ==
    ASSUME NEW y, NEW c
    PROVE  Front(Append(<<y>>, c)) = <<y>> /\ Last(Append(<<y>>, c)) = c
<1>. DEFINE S == {y, c}
            t == SubSeq(Append(<<y>>, c), 1, 1)
<1>1. <<y>> \in Seq(S)
  OBVIOUS
<1>2. Append(<<y>>, c) \in Seq(S) /\ Len(Append(<<y>>, c)) = 2
  BY <1>1
<1>3. t = <<y>>
  <2>1. t \in Seq(S) /\ Len(t) = 1 /\ t[1] = y
    BY <1>2
  <2>2. Len(t) = Len(<<y>>) /\ \A i \in 1..Len(t) : t[i] = <<y>>[i]
    BY <2>1
  <2>. QED
    BY <1>1, <2>1, <2>2, SeqEqual
<1>. QED
  BY <1>2, <1>3 DEF Front, Last

(***************************************************************************)
(* Whichever candidate the free-name loop stops at, the destination lies  *)
(* in the extension's folder, keeps the stem and extends the suffixes.    *)
(***************************************************************************)
LEMMA DestPathShape ==
    ASSUME NEW f, NEW n, n.sfx \in Seq(Nat)
    PROVE  LET p == DestPath(f, FolderPath(n), n) IN
           /\ Front(p) = FolderPath(n)
           /\ Last(p).stem = n.stem
           /\ IsPrefix(n.sfx, Last(p).sfx)
<1>. DEFINE k == CHOOSE k \in 0..MaxCounter :
                      /\ Free(f, FolderPath(n), n, k)
                      /\ \A j \in 0..(k - 1) : ~Free(f, FolderPath(n), n, j)
            c == Candidate(n, k)
<1>1. DestPath(f, FolderPath(n), n) = Append(FolderPath(n), c)
  BY DEF DestPath
<1>2. FolderPath(n) = <<>> \/ FolderPath(n) = <<FolderName(Extension(n))>>
  BY DEF FolderPath
<1>3. Front(Append(FolderPath(n), c)) = FolderPath(n) /\ Last(Append(FolderPath(n), c)) = c
  <2>1. CASE FolderPath(n) = <<>>
    BY <2>1 DEF Front, Last
  <2>2. CASE FolderPath(n) = <<FolderName(Extension(n))>>
    BY <2>2, FrontLastOfPair
  <2>. QED
    BY <1>2, <2>1, <2>2
<1>4. c.stem = n.stem /\ IsPrefix(n.sfx, c.sfx)
  <2>1. CASE k = 0
    BY <2>1 DEF Candidate, IsPrefix
  <2>2. CASE k # 0
    <3>1. c.sfx = Append(n.sfx, k) /\ c.stem = n.stem
      BY <2>2 DEF Candidate, Name
    <3>. QED
      BY <3>1 DEF IsPrefix
  <2>. QED
    BY <2>1, <2>2
<1>. QED
  BY <1>1, <1>3, <1>4

LEMMA InitOInv == Init => OInv
BY InitFSAssumption DEF Init, OInv, OneHolder

(***************************************************************************)
(* When the loop is done it has handled every listed name, so every file  *)
(* of the snapshot is where OrganizedOnDone wants it, its holder is the   *)
(* one path that holds it, and moved_count counts the unbusy ones.        *)
(***************************************************************************)
LEMMA OInvDone == OInv => OrganizedOnDone
<1>. SUFFICES ASSUME OInv, phase = "done" PROVE OrganizedOnDone
  BY DEF OrganizedOnDone
<1>1. LoopState /\ next = Len(listing) + 1 /\ OneHolder(fs)
  BY DEF OInv
<1>2. DOMAIN snapshot \cap Handled = DOMAIN snapshot
  <2>1. Handled = Range(listing)
    BY <1>1 DEF Handled, Range, LoopState
  <2>. QED
    BY <1>1, <2>1 DEF LoopState
<1>3. ASSUME NEW n \in DOMAIN snapshot
      PROVE  LET p == Holder(snapshot[n]) IN
             IF snapshot[n] \in Busy THEN p = <<n>>
             ELSE /\ Front(p) = FolderPath(n)
                  /\ Last(p).stem = n.stem
                  /\ IsPrefix(n.sfx, Last(p).sfx)
  <2>1. PICK p \in DOMAIN fs : fs[p] = snapshot[n] /\ PlacedAt(n, p)
    BY <1>1, <1>2 DEF LoopState
  <2>2. snapshot[n] \in Files
    BY <1>1 DEF LoopState
  <2>3. Holder(snapshot[n]) = p
    BY <1>1, <2>1, <2>2 DEF Holder, OneHolder
  <2>. QED
    BY <2>1, <2>3 DEF PlacedAt
<1>. QED
  BY <1>1, <1>2, <1>3 DEF OrganizedOnDone, LoopState

\* A path of one name is the sequence of that name.
LEMMA SingletonPath ==
    ASSUME NEW S, NEW q \in Seq(S), Len(q) = 1
    PROVE  q = <<q[1]>> /\ q[1] \in S
<1>1. q[1] \in S
  BY ElementOfSeq
<1>2. <<q[1]>> \in Seq(S) /\ Len(<<q[1]>>) = 1
  BY <1>1
<1>. QED
  BY <1>1, <1>2, SeqEqual

(***************************************************************************)
(* Begin: the _logs makedirs keeps each file at one path, and the listing *)
(* os.listdir returns names every top entry exactly once, so the snapshot *)
(* it is taken with agrees with the tree entry by entry.                  *)
(***************************************************************************)
LEMMA BeginOInv ==
    ASSUME OInv, Begin
    PROVE  OInv'
<1>. DEFINE logs == <<FolderName(LogsStem)>>
            f1 == MakeDirs(fs, logs)
            L1 == {q \in DOMAIN f1 : Len(q) = 1}
            T == Top(f1)
<1>1. phase = "pick" /\ fs = InitFS /\ next = 1 /\ moved_count = 0 /\ OneHolder(fs)
  BY DEF Begin, OInv
<1>2. CASE logs \in DOMAIN fs /\ fs[logs] # Dir
  <2>1. phase' = "aborted" /\ fs' = fs
    BY <1>2 DEF Begin
  <2>. QED
    BY <1>1, <2>1 DEF OInv, OneHolder
<1>3. CASE ~(logs \in DOMAIN fs /\ fs[logs] # Dir)
  <2>1. /\ fs' = f1 /\ next' = 1 /\ moved_count' = 0
        /\ \/ phase' = "declined"
           \/ /\ phase' = "loop"
              /\ listing' \in SetToSeqs(T)
              /\ snapshot' = [n \in {m \in T : f1[<<m>>] \in Files} |-> f1[<<n>>]]
    BY <1>1, <1>3 DEF Begin
  <2>2. OneHolder(f1)
    BY <1>1, MakeDirsOneHolder
  <2>3. CASE phase' = "declined"
    BY <2>1, <2>2, <2>3 DEF OInv
  <2>4. CASE phase' = "loop"
    <3>1. listing' \in SetToSeqs(T) /\ snapshot' = [n \in {m \in T : f1[<<m>>] \in Files} |-> f1[<<n>>]]
      BY <2>1, <2>4
    <3>2. /\ DOMAIN fs \subseteq DOMAIN f1 /\ DOMAIN f1 \subseteq DOMAIN fs \cup {logs}
          /\ \A p \in DOMAIN fs : f1[p] = fs[p]
          /\ \A p \in DOMAIN f1 \ DOMAIN fs : f1[p] = Dir
      BY MakeDirsFacts
    <3>3. logs \in Seq(Names)
      BY WordsAssumption DEF FolderName, Name, Names
    <3>4. /\ IsFiniteSet(DOMAIN f1)
          /\ DOMAIN f1 \subseteq Seq(Names)
          /\ \A p \in DOMAIN f1 : f1[p] \in Files \cup {Dir}
      <4>1. IsFiniteSet(DOMAIN fs \cup {logs})
        BY <1>1, InitFSAssumption, FS_AddElement
      <4>. QED
        BY <1>1, <3>2, <3>3, <4>1, InitFSAssumption, FS_Subset
    <3>5. IsFiniteSet(T)
      <4>1. IsFiniteSet(L1)
        BY <3>4, FS_Subset
      <4>. DEFINE g == [q \in L1 |-> q[1]]
      <4>2. g \in Surjection(L1, T)
        BY DEF Top, Surjection
      <4>. HIDE DEF L1, g
      <4>. QED
        BY <4>1, <4>2, FS_Surjection
    <3>6. \A m \in T : m \in Names /\ <<m>> \in DOMAIN f1
      <4>1. SUFFICES ASSUME NEW q \in L1 PROVE q[1] \in Names /\ <<q[1]>> \in DOMAIN f1
        BY DEF Top
      <4>2. q \in Seq(Names) /\ Len(q) = 1
        BY <3>4
      <4>. QED
        BY <4>2, SingletonPath
    <3>7. /\ listing' \in Seq(Names)
          /\ IsInjective(listing')
          /\ Range(listing') = T
      <4>1. Cardinality(T) \in Nat
        BY <3>5, FS_CardinalityType
      <4>2. listing' \in [1..Cardinality(T) -> T] /\ IsInjective(listing')
        BY <3>1 DEF SetToSeqs, IsInjective
      <4>3. Range(listing') = T
        BY <3>1, <3>5, SetToSeqsOnto
      <4>4. listing' \in Seq(Names)
        <5>1. listing' \in [1..Cardinality(T) -> Names]
          BY <3>6, <4>2
        <5>. QED
          BY <4>1, <5>1, SeqDef
      <4>. QED
        BY <4>2, <4>3, <4>4
    <3>8. /\ DOMAIN snapshot' \subseteq Range(listing')
          /\ \A n \in DOMAIN snapshot' : snapshot'[n] \in Files
          /\ IsInjective(snapshot')
      <4>1. \A a, b \in T : f1[<<a>>] = f1[<<b>>] /\ f1[<<a>>] \in Files => a = b
        BY <2>2, <3>6 DEF OneHolder
      <4>. QED
        BY <3>1, <3>7, <4>1 DEF IsInjective
    <3>9. \A i \in 1..Len(listing') :
             /\ <<listing'[i]>> \in DOMAIN fs'
             /\ fs'[<<listing'[i]>>] = IF listing'[i] \in DOMAIN snapshot'
                                       THEN snapshot'[listing'[i]] ELSE Dir
      <4>1. SUFFICES ASSUME NEW i \in 1..Len(listing')
                     PROVE  /\ <<listing'[i]>> \in DOMAIN f1
                            /\ f1[<<listing'[i]>>] = IF listing'[i] \in DOMAIN snapshot'
                                                    THEN snapshot'[listing'[i]] ELSE Dir
        BY <2>1
      <4>2. listing'[i] \in T
        BY <3>7 DEF Range
      <4>. QED
        BY <3>1, <3>4, <3>6, <4>2
    <3>10. Handled' = {}
      BY <2>1 DEF Handled
    <3>11. LoopState'
      <4>1. next' \in 1..(Len(listing') + 1)
        BY <2>1, <3>7
      <4>2. moved_count' = Cardinality({n \in DOMAIN snapshot' \cap Handled' : snapshot'[n] \notin Busy})
        BY <2>1, <3>10, FS_EmptySet
      <4>. QED
        BY <3>7, <3>8, <3>9, <3>10, <4>1, <4>2 DEF LoopState
    <3>. QED
      BY <2>1, <2>2, <2>4, <3>11 DEF OInv
  <2>. QED
    BY <2>1, <2>3, <2>4
<1>. QED
  BY <1>2, <1>3

\* The handled names are finitely many.
LEMMA HandledFinite ==
    ASSUME next \in Nat
    PROVE  IsFiniteSet(Handled)
<1>. DEFINE g == [i \in 1..(next - 1) |-> listing[i]]
<1>1. IsFiniteSet(1..(next - 1))
  BY FS_Interval
<1>2. g \in Surjection(1..(next - 1), Handled)
  BY DEF Handled, Surjection
<1>. HIDE DEF g
<1>. QED
  BY <1>1, <1>2, FS_Surjection

(***************************************************************************)
(* One iteration that reaches shutil.move: the name it handles was not    *)
(* handled before and still holds its snapshot file; the makedirs and the *)
(* move touch no other file, so the earlier files stay placed, this one   *)
(* is placed (at its own path if the move raises, at the free candidate   *)
(* otherwise), and moved_count grows exactly when the move succeeds.      *)
(***************************************************************************)
LEMMA ItemMoveOInv ==
    ASSUME OInv, OrganizeItem,
           fs[<<listing[next]>>] # Dir,
           ~(FolderPath(listing[next]) # <<>> /\ FolderPath(listing[next]) \in DOMAIN fs
             /\ fs[FolderPath(listing[next])] # Dir)
    PROVE  OInv'
<1>. DEFINE m == listing[next]
            src == <<m>>
            dir == FolderPath(m)
            f1 == MakeDirs(fs, dir)
            dst == DestPath(f1, dir, m)
            Moved(H) == {n \in DOMAIN snapshot \cap H : snapshot[n] \notin Busy}
<1>1. /\ phase = "loop" /\ LoopState /\ OneHolder(fs)
      /\ next \in 1..Len(listing)
      /\ listing' = listing /\ snapshot' = snapshot /\ phase' = phase /\ next' = next + 1
      /\ \E k \in 0..MaxCounter : Free(f1, dir, m, k)
      /\ MoveFile(f1, src, dst)
  BY DEF OrganizeItem, OInv, LoopState
<1>2. /\ src \in DOMAIN fs
      /\ m \in DOMAIN snapshot
      /\ fs[src] = snapshot[m]
      /\ snapshot[m] \in Files
      /\ m \in Names
  BY <1>1, DirAssumption, ElementOfSeq DEF LoopState
<1>3. /\ Handled' = Handled \cup {m}
      /\ m \notin Handled
      /\ IsFiniteSet(Handled)
  <2>1. Handled' = Handled \cup {m}
    BY <1>1 DEF Handled
  <2>2. m \notin Handled
    BY <1>1 DEF Handled, LoopState, IsInjective
  <2>. QED
    BY <1>1, <2>1, <2>2, HandledFinite
<1>4. /\ DOMAIN fs \subseteq DOMAIN f1
      /\ \A p \in DOMAIN fs : f1[p] = fs[p]
      /\ dst \notin DOMAIN f1
      /\ OneHolder(f1)
  BY <1>1, MakeDirsFacts, MakeDirsOneHolder, DestPathFree
<1>5. /\ fs' = IF snapshot[m] \in Busy THEN f1 ELSE MoveTo(f1, src, dst)
      /\ moved_count' = IF snapshot[m] \in Busy THEN moved_count ELSE moved_count + 1
  BY <1>1, <1>2 DEF MoveFile
<1>6. OneHolder(fs')
  BY <1>2, <1>4, <1>5, MoveToOneHolder
\* Every path but src keeps what it held.
<1>7. \A p \in DOMAIN fs : p # src => p \in DOMAIN fs' /\ fs'[p] = fs[p]
  <2>1. SUFFICES ASSUME NEW p \in DOMAIN fs, p # src PROVE p \in DOMAIN fs' /\ fs'[p] = fs[p]
    OBVIOUS
  <2>2. p \in DOMAIN f1 /\ p # dst /\ f1[p] = fs[p]
    BY <1>4
  <2>3. CASE snapshot[m] \in Busy
    BY <1>5, <2>2, <2>3
  <2>4. CASE snapshot[m] \notin Busy
    BY <1>5, <2>1, <2>2, <2>4 DEF MoveTo
  <2>. QED
    BY <2>3, <2>4
<1>8. \A i \in next'..Len(listing') :
         /\ <<listing'[i]>> \in DOMAIN fs'
         /\ fs'[<<listing'[i]>>] = IF listing'[i] \in DOMAIN snapshot'
                                   THEN snapshot'[listing'[i]] ELSE Dir
  <2>1. SUFFICES ASSUME NEW i \in (next + 1)..Len(listing)
                 PROVE  /\ <<listing[i]>> \in DOMAIN fs'
                        /\ fs'[<<listing[i]>>] = IF listing[i] \in DOMAIN snapshot
                                                 THEN snapshot[listing[i]] ELSE Dir
    BY <1>1
  <2>2. listing[i] # m
    BY <1>1 DEF LoopState, IsInjective
  <2>3. /\ <<listing[i]>> \in DOMAIN fs
        /\ fs[<<listing[i]>>] = IF listing[i] \in DOMAIN snapshot
                                THEN snapshot[listing[i]] ELSE Dir
    BY <1>1 DEF LoopState
  <2>. QED
    BY <1>7, <2>2, <2>3
<1>9. \A n \in DOMAIN snapshot' \cap Handled' :
         \E p \in DOMAIN fs' : fs'[p] = snapshot'[n] /\ PlacedAt(n, p)'
  <2>1. SUFFICES ASSUME NEW n \in DOMAIN snapshot \cap (Handled \cup {m})
                 PROVE  \E p \in DOMAIN fs' : fs'[p] = snapshot[n] /\ PlacedAt(n, p)
    BY <1>1, <1>3 DEF PlacedAt
  <2>2. CASE n \in Handled
    <3>1. PICK p \in DOMAIN fs : fs[p] = snapshot[n] /\ PlacedAt(n, p)
      BY <1>1, <2>1, <2>2 DEF LoopState
    <3>2. snapshot[n] # snapshot[m]
      BY <1>1, <1>2, <1>3, <2>2 DEF LoopState, IsInjective
    <3>3. p # src
      BY <1>2, <3>1, <3>2
    <3>. QED
      BY <1>7, <3>1, <3>3
  <2>3. CASE n = m /\ snapshot[m] \in Busy
    <3>1. src \in DOMAIN fs' /\ fs'[src] = snapshot[m]
      BY <1>2, <1>4, <1>5, <2>3
    <3>. QED
      BY <2>3, <3>1 DEF PlacedAt
  <2>4. CASE n = m /\ snapshot[m] \notin Busy
    <3>1. dst \in DOMAIN fs' /\ fs'[dst] = snapshot[m]
      <4>1. src \in DOMAIN f1 /\ f1[src] = snapshot[m]
        BY <1>2, <1>4
      <4>. QED
        BY <1>5, <2>4, <4>1 DEF MoveTo
    <3>2. Front(dst) = FolderPath(m) /\ Last(dst).stem = m.stem /\ IsPrefix(m.sfx, Last(dst).sfx)
      BY <1>2, DestPathShape DEF Names
    <3>. QED
      BY <2>4, <3>1, <3>2 DEF PlacedAt
  <2>. QED
    BY <2>2, <2>3, <2>4
<1>10. moved_count' = Cardinality(Moved(Handled'))
  <2>1. moved_count = Cardinality(Moved(Handled)) /\ IsFiniteSet(Moved(Handled))
    <3>1. moved_count = Cardinality(Moved(Handled))
      BY <1>1 DEF LoopState
    <3>2. Moved(Handled) \subseteq Handled
      OBVIOUS
    <3>. HIDE DEF Moved
    <3>. QED
      BY <1>3, <3>1, <3>2, FS_Subset
  <2>2. CASE snapshot[m] \in Busy
    BY <1>3, <1>5, <2>1, <2>2
  <2>3. CASE snapshot[m] \notin Busy
    <3>1. Moved(Handled') = Moved(Handled) \cup {m} /\ m \notin Moved(Handled)
      BY <1>2, <1>3, <2>3
    <3>. QED
      BY <1>5, <2>1, <2>3, <3>1, FS_AddElement
  <2>. QED
    BY <2>2, <2>3
<1>. QED
  <2>1. LoopState'
    BY <1>1, <1>8, <1>9, <1>10 DEF LoopState
  <2>. QED
    BY <1>1, <1>6, <2>1 DEF OInv

(***************************************************************************)
(* One iteration of the loop keeps the invariant: a directory is skipped, *)
(* a makedirs error aborts the slot, anything else reaches the move.      *)
(***************************************************************************)
LEMMA ItemOInv ==
    ASSUME OInv, OrganizeItem
    PROVE  OInv'
<1>. DEFINE m == listing[next]
            src == <<m>>
            dir == FolderPath(m)
<1>1. phase = "loop" /\ LoopState /\ OneHolder(fs) /\ next \in 1..Len(listing)
      /\ listing' = listing /\ snapshot' = snapshot
  BY DEF OrganizeItem, OInv, LoopState
<1>2. CASE fs[src] = Dir
  <2>1. next' = next + 1 /\ fs' = fs /\ phase' = phase /\ moved_count' = moved_count
    BY <1>2 DEF OrganizeItem
  <2>2. m \notin DOMAIN snapshot
    BY <1>1, <1>2, DirAssumption DEF LoopState
  <2>3. Handled' = Handled \cup {m}
    BY <1>1, <2>1 DEF Handled
  <2>4. DOMAIN snapshot \cap Handled' = DOMAIN snapshot \cap Handled
    BY <2>2, <2>3
  <2>5. LoopState'
    <3>1. next' \in 1..(Len(listing') + 1)
      BY <1>1, <2>1
    <3>2. \A i \in next'..Len(listing') :
             /\ <<listing'[i]>> \in DOMAIN fs'
             /\ fs'[<<listing'[i]>>] = IF listing'[i] \in DOMAIN snapshot'
                                       THEN snapshot'[listing'[i]] ELSE Dir
      BY <1>1, <2>1 DEF LoopState
    <3>3. \A n \in DOMAIN snapshot' \cap Handled' :
             \E p \in DOMAIN fs' : fs'[p] = snapshot'[n] /\ PlacedAt(n, p)'
      BY <1>1, <2>1, <2>4 DEF LoopState, PlacedAt
    <3>4. moved_count' = Cardinality({n \in DOMAIN snapshot' \cap Handled' : snapshot'[n] \notin Busy})
      BY <1>1, <2>1, <2>4 DEF LoopState
    <3>. QED
      BY <1>1, <3>1, <3>2, <3>3, <3>4 DEF LoopState
  <2>. QED
    BY <1>1, <2>1, <2>5 DEF OInv, OneHolder
<1>3. CASE fs[src] # Dir /\ dir # <<>> /\ dir \in DOMAIN fs /\ fs[dir] # Dir
  <2>1. phase' = "aborted" /\ fs' = fs
    BY <1>3 DEF OrganizeItem
  <2>. QED
    BY <1>1, <2>1 DEF OInv, OneHolder
<1>4. CASE fs[src] # Dir /\ ~(dir # <<>> /\ dir \in DOMAIN fs /\ fs[dir] # Dir)
  BY <1>4, ItemMoveOInv
<1>. QED
  BY <1>2, <1>3, <1>4

LEMMA NextOInv == OInv /\ [Next]_vars => OInv'
<1>. SUFFICES ASSUME OInv, [Next]_vars PROVE OInv'
  OBVIOUS
<1>1. CASE Begin
  BY <1>1, BeginOInv
<1>2. CASE OrganizeItem
  BY <1>2, ItemOInv
<1>3. CASE Finish
  <2>1. phase = "loop" /\ LoopState /\ next \in 1..(Len(listing) + 1) /\ next > Len(listing)
    BY <1>3 DEF Finish, OInv, LoopState
  <2>2. phase' = "done" /\ UNCHANGED <<fs, listing, next, moved_count, snapshot>>
    BY <1>3 DEF Finish
  <2>3. LoopState'
    BY <2>1, <2>2 DEF LoopState, Handled, PlacedAt
  <2>. QED
    BY <2>1, <2>2, <2>3 DEF OInv, OneHolder
<1>4. CASE UNCHANGED vars
  <2>1. fs' = fs /\ phase' = phase /\ listing' = listing /\ next' = next
        /\ moved_count' = moved_count /\ snapshot' = snapshot
    BY <1>4 DEF vars
  <2>2. Handled' = Handled
    BY <2>1 DEF Handled
  <2>3. LoopState' = LoopState
    BY <2>1, <2>2 DEF LoopState, PlacedAt
  <2>. QED
    BY <2>1, <2>3 DEF OInv, OneHolder
<1>. QED
  BY <1>1, <1>2, <1>3, <1>4 DEF Next

(***************************************************************************)
(* When organize_directory shows its summary, every file the listing      *)
(* named that shutil.move could move sits in its extension's folder under *)
(* its stem with the free-name loop's suffix, every one it could not is   *)
(* still where it was, and moved_count is the number moved: for every     *)
(* tree, listing order, set of unmovable files and bound on the loop.     *)
(***************************************************************************)
THEOREM OrganizedOnDoneHolds == Spec => []OrganizedOnDone
<1>1. Spec => []OInv
  BY InitOInv, NextOInv, PTL DEF Spec
<1>. QED
  BY <1>1, OInvDone, PTL
=============================================================================
