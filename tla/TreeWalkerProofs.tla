--------------------------- MODULE TreeWalkerProofs ---------------------------
(***************************************************************************)
(* Proofs about fast_scan (module TreeWalker), for every finite tree: the *)
(* walk is well typed and never yields a real directory twice, whatever   *)
(* cycles, unreadable directories or listing orders the tree has.         *)
(***************************************************************************)
EXTENDS TreeWalker, FiniteSetTheorems, TLAPS

USE KindAssumption, ParentAssumption, TargetAssumption, EntriesAssumption,
    RootAssumption

\* Every yielded directory was marked visited before it was listed.
YieldedVisited == YieldedDirs \subseteq visited

\* The inductive invariant.
IInv == TypeOK /\ YieldedVisited /\ NoDirTwice

(***************************************************************************)
(* A listing order of a set of entries is a sequence of entries.          *)
(***************************************************************************)
LEMMA ListingIsSeq ==
    ASSUME NEW X, X \subseteq Entries, NEW s \in SetToSeqs(X)
    PROVE  /\ s \in Seq(Entries)
           /\ \A i \in 1..Len(s) : s[i] \in X
<1>1. IsFiniteSet(X)
  BY FS_Subset
<1>2. Cardinality(X) \in Nat
  BY <1>1, FS_CardinalityType
<1>3. s \in [1..Cardinality(X) -> X]
  BY DEF SetToSeqs
<1>4. s \in Seq(Entries)
  BY <1>2, <1>3
<1>5. Len(s) = Cardinality(X)
  BY <1>2, <1>3, <1>4
<1>. QED
  BY <1>3, <1>4, <1>5

(***************************************************************************)
(* The paths fast_scan pushes for the subdirectories it listed are         *)
(* directories.                                                            *)
(***************************************************************************)
LEMMA PushedAreDirs ==
    ASSUME NEW d, NEW s \in SetToSeqs(SubdirEntries(d))
    PROVE  [i \in 1..Len(s) |-> Target[s[i]]] \in Seq(Dirs)
<1>1. SubdirEntries(d) \subseteq Entries
  BY DEF SubdirEntries
<1>2. /\ s \in Seq(Entries)
      /\ \A i \in 1..Len(s) : s[i] \in SubdirEntries(d)
  BY <1>1, ListingIsSeq
<1>3. \A i \in 1..Len(s) : Target[s[i]] \in Dirs
  BY <1>2 DEF SubdirEntries
<1>. QED
  BY <1>2, <1>3

LEMMA InitIInv == Init => IInv
BY DEF Init, IInv, TypeOK, YieldedVisited, YieldedDirs, NoDirTwice

(***************************************************************************)
(* One iteration of `while stack:` keeps the invariant, for any set U of   *)
(* directories whose listing raises.                                       *)
(***************************************************************************)
LEMMA WalkIInv ==
    ASSUME NEW U, IInv, Walk(U)
    PROVE  IInv'
<1>. DEFINE d == Last(stack)
<1>1. /\ stack \in Seq(Dirs) /\ stack # <<>>
      /\ d \in Dirs
      /\ Front(stack) \in Seq(Dirs)
  <2>1. stack \in Seq(Dirs) /\ stack # <<>>
    BY DEF IInv, TypeOK, Walk
  <2>2. d \in Dirs
    BY <2>1 DEF Last
  <2>3. Front(stack) \in Seq(Dirs)
    BY <2>1 DEF Front
  <2>. QED
    BY <2>1, <2>2, <2>3
<1>2. CASE d \in visited
  BY <1>1, <1>2 DEF Walk, IInv, TypeOK, YieldedVisited, YieldedDirs, NoDirTwice
<1>3. CASE d \notin visited /\ d \in U
  <2>1. /\ visited' = visited \cup {d}
        /\ stack' = Front(stack)
        /\ yielded' = yielded
    BY <1>3 DEF Walk
  <2>. QED
    BY <1>1, <2>1 DEF IInv, TypeOK, YieldedVisited, YieldedDirs, NoDirTwice
<1>4. CASE d \notin visited /\ d \notin U
  <2>1. PICK dirs \in SetToSeqs(SubdirEntries(d)), files \in SetToSeqs(FileEntries(d)) :
            /\ visited' = visited \cup {d}
            /\ yielded' = Append(yielded, [dir |-> d, dirs |-> dirs, files |-> files])
            /\ stack' = Front(stack) \o [i \in 1..Len(dirs) |-> Target[dirs[i]]]
    BY <1>4 DEF Walk
  <2>2. dirs \in Seq(Entries) /\ files \in Seq(Entries)
    <3>1. SubdirEntries(d) \subseteq Entries /\ FileEntries(d) \subseteq Entries
      BY DEF SubdirEntries, FileEntries
    <3>. QED
      BY <3>1, ListingIsSeq
  <2>. DEFINE y == [dir |-> d, dirs |-> dirs, files |-> files]
  <2>3. y \in Yield
    BY <1>1, <2>2 DEF Yield
  <2>4. yielded \in Seq(Yield)
    BY DEF IInv, TypeOK
  <2>5. TypeOK'
    <3>1. stack' \in Seq(Dirs)
      BY <1>1, <2>1, PushedAreDirs
    <3>2. yielded' \in Seq(Yield)
      BY <2>1, <2>3, <2>4
    <3>. QED
      BY <1>1, <2>1, <3>1, <3>2 DEF IInv, TypeOK
  <2>6. Len(yielded') = Len(yielded) + 1
        /\ \A i \in 1..Len(yielded) : yielded'[i] = yielded[i]
        /\ yielded'[Len(yielded) + 1].dir = d
    BY <2>1, <2>3, <2>4
  <2>7. YieldedVisited'
    BY <2>1, <2>4, <2>6 DEF IInv, YieldedVisited, YieldedDirs
  <2>8. NoDirTwice'
    <3>1. \A i \in 1..Len(yielded) : yielded[i].dir # d
      BY <1>4 DEF IInv, YieldedVisited, YieldedDirs
    <3>. QED
      BY <2>4, <2>6, <3>1 DEF IInv, NoDirTwice
  <2>. QED
    BY <2>5, <2>7, <2>8 DEF IInv
<1>. QED
  BY <1>2, <1>3, <1>4

LEMMA NextIInv == IInv /\ [Next]_walkVars => IInv'
<1>. SUFFICES ASSUME IInv, [Next]_walkVars PROVE IInv'
  OBVIOUS
<1>1. CASE Next
  BY <1>1, WalkIInv DEF Next, Step
<1>2. CASE UNCHANGED walkVars
  BY <1>2 DEF walkVars, IInv, TypeOK, YieldedVisited, YieldedDirs, NoDirTwice
<1>. QED
  BY <1>1, <1>2

(***************************************************************************)
(* fast_scan is well typed: its stack holds directories, its visited set   *)
(* real directories, and it yields (directory, entries, entries) triples.  *)
(***************************************************************************)
THEOREM WalkTypeCorrect == Spec => []TypeOK
<1>1. Spec => []IInv
  BY InitIInv, NextIInv, PTL DEF Spec
<1>. QED
  BY <1>1, PTL DEF IInv

(***************************************************************************)
(* Spec 4.1 and 8: the realpath-keyed visited set makes fast_scan yield    *)
(* each real directory at most once, for every tree, junction cycles and  *)
(* unreadable directories included, and every listing order.              *)
(***************************************************************************)
THEOREM NoDirTwiceHolds == Spec => []NoDirTwice
<1>1. Spec => []IInv
  BY InitIInv, NextIInv, PTL DEF Spec
<1>. QED
  BY <1>1, PTL DEF IInv

-----------------------------------------------------------------------------
(***************************************************************************)
(* The files of a yielded triple are entries of its directory that        *)
(* is_dir(follow_symlinks=False) rejected: regular files and links.       *)
(***************************************************************************)
YieldedFiles ==
    \A i \in 1..Len(yielded) :
        \A j \in 1..Len(yielded[i].files) : yielded[i].files[j] \in FileEntries(yielded[i].dir)

\* One iteration of `while stack:` keeps YieldedFiles, for any U.
LEMMA WalkYieldedFiles ==
    ASSUME NEW U, IInv, YieldedFiles, Walk(U)
    PROVE  YieldedFiles'
<1>. DEFINE d == Last(stack)
<1>1. CASE yielded' = yielded
  BY <1>1 DEF YieldedFiles
<1>2. CASE yielded' # yielded
  <2>1. PICK dirs \in SetToSeqs(SubdirEntries(d)), files \in SetToSeqs(FileEntries(d)) :
            yielded' = Append(yielded, [dir |-> d, dirs |-> dirs, files |-> files])
    BY <1>2 DEF Walk
  <2>2. \A j \in 1..Len(files) : files[j] \in FileEntries(d)
    <3>1. FileEntries(d) \subseteq Entries
      BY DEF FileEntries
    <3>. QED
      BY <3>1, ListingIsSeq
  <2>3. yielded \in Seq(Yield)
    BY DEF IInv, TypeOK
  <2>. QED
    BY <2>1, <2>2, <2>3 DEF YieldedFiles
<1>. QED
  BY <1>1, <1>2
=============================================================================
