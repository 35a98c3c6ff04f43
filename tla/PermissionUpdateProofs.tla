------------------------ MODULE PermissionUpdateProofs ------------------------
(***************************************************************************)
(* Proofs that PermissionUpdateWorker.run's `finished` signal is truthful *)
(* and that a POSIX success leaves every enumerated item at the policy's  *)
(* mode (module PermissionUpdate), for every tree, root list and platform.*)
(* The walker's invariant is taken from TreeWalkerProofs, instanced for   *)
(* the roots' directories.                                                *)
(***************************************************************************)
EXTENDS PermissionUpdate, TLAPS

WP == INSTANCE TreeWalkerProofs WITH Unreadable <- {}, Root <- Roots[1]

\* The walker's assumptions hold for the tree and root of this run.
LEMMA WalkerFacts ==
    /\ WP!KindAssumption /\ WP!ParentAssumption /\ WP!TargetAssumption
    /\ WP!EntriesAssumption /\ WP!RootAssumption
<1>1. WP!KindAssumption /\ WP!ParentAssumption /\ WP!TargetAssumption /\ WP!EntriesAssumption
  BY WalkerAssumption
  DEF WalkerAssumption, W!KindAssumption, WP!KindAssumption, W!ParentAssumption, WP!ParentAssumption,
      W!TargetAssumption, WP!TargetAssumption, W!EntriesAssumption, WP!EntriesAssumption,
      W!Kinds, WP!Kinds, W!DirKinds, WP!DirKinds, W!IsFiniteSet, WP!IsFiniteSet
<1>2. WP!RootAssumption
  BY RootsAssumption DEF RootsAssumption, WP!RootAssumption
<1>. QED
  BY <1>1, <1>2

\* One fast_scan iteration under the modes of this run keeps the walker's
\* invariant, and yields as files only regular files and links.
LEMMA EnumWalk ==
    ASSUME WP!IInv, WP!YieldedFiles, W!Walk(Locked)
    PROVE  WP!IInv' /\ WP!YieldedFiles'
<1>1. WP!Walk(Locked)
  BY DEF W!Walk, WP!Walk, W!Last, WP!Last, W!Front, WP!Front, W!SetToSeqs, WP!SetToSeqs,
         W!SubdirEntries, WP!SubdirEntries, W!FileEntries, WP!FileEntries, W!DirKinds, WP!DirKinds, W!FileKinds, WP!FileKinds,
         W!Cardinality, WP!Cardinality
<1>2. \A U : WP!IInv /\ WP!Walk(U) => WP!IInv'
  BY WalkerFacts, WP!WalkIInv
<1>3. \A U : WP!IInv /\ WP!YieldedFiles /\ WP!Walk(U) => WP!YieldedFiles'
  BY WalkerFacts, WP!WalkYieldedFiles
<1>. QED
  BY <1>1, <1>2, <1>3

\* What run() can find in all_items: a root or listed directory, or an
\* entry fast_scan yielded as a file (a regular file or a link).
Items == Dirs \cup {e \in Entries : Kind[e] \in W!FileKinds}

(***************************************************************************)
(* On POSIX every item the loop has counted so far, followed through      *)
(* links, has the policy's mode, unless os.chmod raised for it.           *)
(***************************************************************************)
NormalizedPrefix ==
    ~Windows =>
        \A i \in 1..processed :
            LET o == Obj(all_items[i]) IN
            o \notin Denied \cup {NoFile} => mode[o] = Policy(o)

(***************************************************************************)
(* The inductive invariant: the walk is well typed, so all_items is a     *)
(* sequence and its length a number; a result exists exactly once the     *)
(* worker is finished; and the result reported is truthful.               *)
(***************************************************************************)
PInv ==
    /\ WP!IInv
    /\ WP!YieldedFiles
    /\ Windows \in BOOLEAN
    /\ mode \in [Objects -> Modes]
    /\ phase \in {"enum", "grant", "apply", "finished"}
    /\ next_root \in Nat \ {0}
    /\ all_items \in Seq(Items)
    /\ processed \in 0..Len(all_items)
    /\ phase \in {"enum", "grant"} => processed = 0
    /\ (result = NoResult) <=> (phase # "finished")
    /\ phase = "finished" => result \in Result
    /\ ProgressStream
    /\ NormalizedPrefix

\* A step that leaves the walker's variables alone keeps its invariant.
LEMMA WalkKept ==
    ASSUME WP!IInv, WP!YieldedFiles, UNCHANGED <<stack, visited, yielded>>
    PROVE  WP!IInv' /\ WP!YieldedFiles'
BY DEF WP!IInv, WP!TypeOK, WP!YieldedVisited, WP!YieldedDirs, WP!NoDirTwice, WP!YieldedFiles

\* Following links, an item names an object or nothing.
LEMMA ObjType ==
    ASSUME NEW x \in Items
    PROVE  Obj(x) \in Objects \cup {NoFile}
BY LinkToPerm DEF LinkToPerm, Items, Obj, W!FileKinds, Objects, RegularFiles

(***************************************************************************)
(* _set_perms_posix only ever writes the policy's mode: it keeps the type  *)
(* of the mode map, leaves every object at its mode or the policy's, and  *)
(* gives the item's object the policy's mode unless chmod raises.         *)
(***************************************************************************)
LEMMA SetPermsPolicy ==
    ASSUME mode \in [Objects -> Modes], NEW x \in Items
    PROVE  /\ SetPermsPosix(x) \in [Objects -> Modes]
           /\ \A o \in Objects : SetPermsPosix(x)[o] \in {mode[o], Policy(o)}
           /\ Obj(x) \notin Denied \cup {NoFile} => SetPermsPosix(x)[Obj(x)] = Policy(Obj(x))
<1>1. Obj(x) \in Objects \cup {NoFile}
  BY ObjType
<1>. QED
  BY <1>1 DEF SetPermsPosix, Policy, Modes

\* The two results run() emits are results, never NoResult.
LEMMA EmittedResults ==
    /\ [success |-> FALSE, msg |-> "cancelled"] \in Result \ {NoResult}
    /\ [success |-> TRUE, msg |-> "updated"] \in Result \ {NoResult}
<1>1. /\ [success |-> FALSE, msg |-> "cancelled"] \in Result
      /\ [success |-> TRUE, msg |-> "updated"] \in Result
  BY DEF Result, Message
<1>. QED
  BY <1>1, NoResultAssumption DEF NoResultAssumption

LEMMA InitPInv == Init => PInv
BY NoResultAssumption, RootsAssumption, InitModeAssumption
DEF Init, PInv, ProgressStream, NormalizedPrefix, WP!IInv, WP!TypeOK, WP!YieldedVisited,
    WP!YieldedDirs, WP!NoDirTwice, WP!YieldedFiles

(***************************************************************************)
(* Every step keeps the invariant.  The enumeration steps leave result    *)
(* and processed alone; GrantRoot only moves to "apply"; an apply          *)
(* iteration either counts an item (no result yet) or, on cancel, reports *)
(* failure with processed below the total; Finish reports success only    *)
(* when every item was counted; nothing moves once finished.              *)
(***************************************************************************)
LEMMA NextPInv == PInv /\ [Next]_vars => PInv'
<1>. SUFFICES ASSUME PInv, [Next]_vars PROVE PInv'
  OBVIOUS
<1>. USE DEF PInv, ProgressStream
<1>0. Windows' = Windows
  BY DEF Next, Run, vars
<1>1. CASE BeginRoot
  <2>1. Roots[next_root] \in Dirs
    BY <1>1, RootsAssumption DEF BeginRoot
  <2>2. WP!IInv' /\ WP!YieldedFiles'
    BY <1>1, <2>1 DEF BeginRoot, W!Begin, WP!IInv, WP!TypeOK, WP!YieldedVisited,
                     WP!YieldedDirs, WP!NoDirTwice, WP!YieldedFiles
  <2>. QED
    BY <1>0, <1>1, <2>2 DEF BeginRoot, NormalizedPrefix
<1>2. CASE Enumerate
  <2>1. WP!IInv' /\ WP!YieldedFiles'
    BY <1>2, EnumWalk DEF Enumerate
  <2>2. yielded \in Seq(WP!Yield) /\ yielded' \in Seq(WP!Yield)
    BY <2>1 DEF WP!IInv, WP!TypeOK
  <2>3. all_items' \in Seq(Items)
    <3>1. CASE Len(yielded') > Len(yielded)
      <4>. DEFINE y == Last(yielded')
      <4>1. y \in WP!Yield /\ y = yielded'[Len(yielded')] /\ Len(yielded') \in 1..Len(yielded')
        BY <2>2, <3>1 DEF Last
      <4>2. \A j \in 1..Len(y.files) : y.files[j] \in WP!FileEntries(y.dir)
        BY <2>1, <4>1 DEF WP!YieldedFiles
      <4>3. y.files \in Seq(Items) /\ y.dir \in Items
        BY <4>1, <4>2 DEF WP!Yield, WP!FileEntries, WP!FileKinds, W!FileKinds, Items
      <4>. QED
        BY <1>2, <3>1, <4>3 DEF Enumerate
    <3>2. CASE ~(Len(yielded') > Len(yielded))
      BY <1>2, <3>2 DEF Enumerate
    <3>. QED
      BY <3>1, <3>2
  <2>4. /\ processed' = processed /\ phase' = phase /\ mode' = mode /\ result' = result
        /\ next_root' = next_root /\ phase = "enum"
    BY <1>2 DEF Enumerate
  <2>5. processed = 0
    BY <2>4
  <2>6. Len(all_items') \in Nat
    BY <2>3
  <2>. QED
    BY <1>0, <2>1, <2>3, <2>4, <2>5, <2>6 DEF NormalizedPrefix
<1>3. CASE EndEnumeration
  BY <1>0, <1>3, WalkKept DEF EndEnumeration, NormalizedPrefix
<1>4. CASE GrantRoot
  BY <1>0, <1>4, WalkKept DEF GrantRoot, NormalizedPrefix
<1>5. CASE ApplyItem
  <2>0. WP!IInv' /\ WP!YieldedFiles' /\ all_items' = all_items /\ next_root' = next_root /\ cancel' = cancel
    BY <1>5, WalkKept DEF ApplyItem
  <2>2. CASE cancel
    <3>1. /\ result' = [success |-> FALSE, msg |-> "cancelled"]
          /\ phase' = "finished" /\ processed' = processed /\ mode' = mode
          /\ processed < Len(all_items)
      BY <1>5, <2>2 DEF ApplyItem
    <3>2. result' \in Result /\ result' # NoResult
      BY <3>1, EmittedResults
    <3>3. processed' # Len(all_items')
      BY <2>0, <3>1
    <3>4. NormalizedPrefix'
      BY <1>0, <2>0, <3>1 DEF NormalizedPrefix
    <3>. QED
      BY <1>0, <2>0, <2>2, <3>1, <3>2, <3>3, <3>4
  <2>3. CASE ~cancel
    <3>. DEFINE x == all_items[processed + 1]
    <3>1. /\ processed' = processed + 1 /\ processed + 1 <= Len(all_items)
          /\ mode' = IF Windows THEN mode ELSE SetPermsPosix(x)
          /\ phase' = phase /\ result' = result /\ phase = "apply"
      BY <1>5, <2>3 DEF ApplyItem
    <3>2. x \in Items
      BY <3>1
    <3>3. mode' \in [Objects -> Modes]
      BY <3>1, <3>2, SetPermsPolicy
    <3>4. NormalizedPrefix'
      <4>1. SUFFICES ASSUME ~Windows, NEW i \in 1..processed + 1,
                            Obj(all_items[i]) \notin Denied \cup {NoFile}
                     PROVE  mode'[Obj(all_items[i])] = Policy(Obj(all_items[i]))
        BY <1>0, <2>0, <3>1 DEF NormalizedPrefix
      <4>2. mode' = SetPermsPosix(x)
        BY <3>1, <4>1
      <4>3. Obj(all_items[i]) \in Objects
        BY <3>1, <4>1, ObjType
      <4>4. CASE i = processed + 1
        BY <3>2, <4>1, <4>2, <4>4, SetPermsPolicy
      <4>5. CASE i \in 1..processed
        <5>1. mode[Obj(all_items[i])] = Policy(Obj(all_items[i]))
          BY <4>1, <4>5 DEF NormalizedPrefix
        <5>. QED
          BY <3>2, <4>2, <4>3, <5>1, SetPermsPolicy
      <4>. QED
        BY <4>4, <4>5
    <3>. QED
      BY <1>0, <2>0, <3>1, <3>3, <3>4
  <2>. QED
    BY <2>2, <2>3
<1>6. CASE Finish
  <2>1. /\ result' = [success |-> TRUE, msg |-> "updated"]
        /\ phase' = "finished" /\ processed' = processed /\ all_items' = all_items
        /\ processed = Len(all_items) /\ mode' = mode
        /\ WP!IInv' /\ WP!YieldedFiles'
    BY <1>6, WalkKept DEF Finish
  <2>2. result' \in Result /\ result' # NoResult
    BY <2>1, EmittedResults
  <2>3. NormalizedPrefix'
    BY <1>0, <2>1 DEF NormalizedPrefix
  <2>. QED
    <3>1. next_root' = next_root /\ cancel' = cancel
      BY <1>6 DEF Finish
    <3>. QED
      BY <1>0, <2>1, <2>2, <2>3, <3>1
<1>7. CASE Cancel
  BY <1>0, <1>7, WalkKept DEF Cancel, NormalizedPrefix
<1>8. CASE UNCHANGED vars
  BY <1>8, WalkKept DEF vars, NormalizedPrefix
<1>. QED
  BY <1>1, <1>2, <1>3, <1>4, <1>5, <1>6, <1>7, <1>8 DEF Next, Run

(***************************************************************************)
(* The `finished` signal of PermissionUpdateWorker.run is truthful: it     *)
(* reports success exactly when every enumerated item was counted through, *)
(* and failure only after _cancel_permission_update asked for it.          *)
(***************************************************************************)
THEOREM ProgressStreamHolds == Spec => []ProgressStream
<1>1. Spec => []PInv
  BY InitPInv, NextPInv, PTL DEF Spec
<1>. QED
  BY <1>1, PTL DEF PInv

\* A success has counted every item, so the normalised prefix is all of them.
LEMMA PInvNormalized == PInv => NormalizedOnSuccess
<1>. SUFFICES ASSUME PInv, ~Windows, result # NoResult, result.success
              PROVE  \A i \in 1..Len(all_items) :
                         LET o == Obj(all_items[i]) IN
                         o \notin Denied \cup {NoFile} => mode[o] = Policy(o)
  BY DEF NormalizedOnSuccess
<1>1. processed = Len(all_items)
  BY DEF PInv, ProgressStream
<1>. QED
  BY <1>1 DEF PInv, NormalizedPrefix

(***************************************************************************)
(* The POSIX strategy of PermissionUpdateWorker.run: when it reports       *)
(* success, every enumerated item that os.chmod accepted, followed through *)
(* links with os.path.isdir, has 0o777 if it is a directory and 0o666      *)
(* otherwise: a later chmod never undoes an earlier one, because each      *)
(* writes only the policy's mode.                                         *)
(***************************************************************************)
THEOREM NormalizedOnSuccessHolds == Spec => []NormalizedOnSuccess
<1>1. Spec => []PInv
  BY InitPInv, NextPInv, PTL DEF Spec
<1>. QED
  BY <1>1, PInvNormalized, PTL
=============================================================================
