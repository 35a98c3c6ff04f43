----------------------------- MODULE TreeWalker -----------------------------
(***************************************************************************)
(* fast_scan(base_path) (src/sak_utiliy.py): the stack-based traversal     *)
(* every other component consumes.                                         *)
(*                                                                         *)
(* The file system is a set of directories Dirs and a set of entries, each *)
(* in one directory (Parent) and of one Kind, as os.scandir's DirEntry     *)
(* classifies it with is_dir(follow_symlinks=False):                       *)
(*   "dir"        a subdirectory: Target is that directory;                *)
(*   "junction"   a directory reparse point / mount: is_dir is True and    *)
(*                realpath resolves it to Target, a directory elsewhere;   *)
(*   "link"       a symbolic link: is_dir(follow_symlinks=False) is False, *)
(*                so it is listed among the files whatever it points to;   *)
(*   "file"       a regular file;                                          *)
(*   "unstatable" an entry whose is_dir raises: skipped.                   *)
(* A stack element is the directory its path resolves to: realpath is      *)
(* taken when it is popped, and scandir of the path lists that directory.  *)
(* Unreadable directories make os.scandir, or the iteration, raise.        *)
(* The order in which scandir lists a directory is the OS's: any order.    *)
(***************************************************************************)
EXTENDS Integers, Sequences, FiniteSets, SequencesExt, Graphs

CONSTANTS
    Dirs,        \* directories (their real paths)
    Entries,     \* directory entries
    Parent,      \* Parent[e]: the directory listing e
    Kind,        \* Kind[e]
    Target,      \* Target[e]: the directory a "dir" or "junction" entry resolves to
    Unreadable   \* directories whose listing raises (permission, I/O error)

Kinds == {"dir", "junction", "link", "file", "unstatable"}
DirKinds == {"dir", "junction"}
FileKinds == {"link", "file"}

ASSUME KindAssumption == Kind \in [Entries -> Kinds]
ASSUME ParentAssumption == Parent \in [Entries -> Dirs]
ASSUME TargetAssumption ==
    \A e \in Entries : Kind[e] \in DirKinds => Target[e] \in Dirs
ASSUME EntriesAssumption == IsFiniteSet(Entries)

VARIABLES
    stack,    \* the generator's `stack`
    visited,  \* its `visited` set of real paths
    yielded   \* the (path, dirs, files) triples yielded so far, in order

walkVars == <<stack, visited, yielded>>

\* The entries a successful listing of d classifies as directories / files.
SubdirEntries(d) == {e \in Entries : Parent[e] = d /\ Kind[e] \in DirKinds}
FileEntries(d) == {e \in Entries : Parent[e] = d /\ Kind[e] \in FileKinds}

\* fast_scan(base): stack = [base_path], visited = set().
Begin(base) ==
    /\ stack' = <<base>>
    /\ visited' = {}
    /\ yielded' = <<>>

\* Mutant: `real in visited` not checked, so a path is listed every time it
\* is reached.
WalkNoVisitedCheck(U) ==
    /\ stack # <<>>
    /\ LET d == Last(stack) IN
       /\ visited' = visited \cup {d}
       /\ IF d \in U
            THEN /\ stack' = Front(stack)
                 /\ UNCHANGED yielded
            ELSE \E dirs \in SetToSeqs(SubdirEntries(d)),
                    files \in SetToSeqs(FileEntries(d)) :
                   /\ yielded' = Append(yielded, [dir |-> d, dirs |-> dirs, files |-> files])
                   /\ stack' = Front(stack) \o [i \in 1..Len(dirs) |-> Target[dirs[i]]]

\* Mutant: an unreadable directory ends the walk (`return` for `continue`).
WalkAbortOnError(U) ==
    /\ stack # <<>>
    /\ LET d == Last(stack) IN
       IF d \in visited
         THEN /\ stack' = Front(stack)
              /\ UNCHANGED <<visited, yielded>>
         ELSE /\ visited' = visited \cup {d}
              /\ IF d \in U
                   THEN /\ stack' = <<>>
                        /\ UNCHANGED yielded
                   ELSE \E dirs \in SetToSeqs(SubdirEntries(d)),
                           files \in SetToSeqs(FileEntries(d)) :
                          /\ yielded' = Append(yielded, [dir |-> d, dirs |-> dirs, files |-> files])
                          /\ stack' = Front(stack) \o [i \in 1..Len(dirs) |-> Target[dirs[i]]]

\* Mutant: the top is read with stack[-1] and popped only after a successful
\* listing, so a visited or unreadable path stays on the stack.
WalkPopAfterListing(U) ==
    /\ stack # <<>>
    /\ LET d == Last(stack) IN
       IF d \in visited
         THEN UNCHANGED walkVars
         ELSE /\ visited' = visited \cup {d}
              /\ IF d \in U
                   THEN UNCHANGED <<stack, yielded>>
                   ELSE \E dirs \in SetToSeqs(SubdirEntries(d)),
                           files \in SetToSeqs(FileEntries(d)) :
                          /\ yielded' = Append(yielded, [dir |-> d, dirs |-> dirs, files |-> files])
                          /\ stack' = Front(stack) \o [i \in 1..Len(dirs) |-> Target[dirs[i]]]

(***************************************************************************)
(* One iteration of `while stack:`.  A real path already visited is        *)
(* dropped; otherwise it is marked visited before it is listed, and a      *)
(* listing that raises drops the directory (and whatever it had listed).   *)
(* A successful listing yields (path, dirs, files) in scandir's order and  *)
(* pushes dirs, so the last one listed is walked next.  U is the set of    *)
(* directories whose listing raises at this moment.                       *)
(***************************************************************************)
Walk(U) ==
    /\ stack # <<>>
    /\ LET d == Last(stack) IN
       IF d \in visited
         THEN /\ stack' = Front(stack)
              /\ UNCHANGED <<visited, yielded>>
         ELSE /\ visited' = visited \cup {d}
              /\ IF d \in U
                   THEN /\ stack' = Front(stack)
                        /\ UNCHANGED yielded
                   ELSE \E dirs \in SetToSeqs(SubdirEntries(d)),
                           files \in SetToSeqs(FileEntries(d)) :
                          /\ yielded' = Append(yielded, [dir |-> d, dirs |-> dirs, files |-> files])
                          /\ stack' = Front(stack) \o [i \in 1..Len(dirs) |-> Target[dirs[i]]]

\* A step of a walk over a file system that does not change under it.
Step == Walk(Unreadable)

\* The generator is exhausted.
Exhausted == stack = <<>>

-----------------------------------------------------------------------------
(* A traversal from Root on its own, as fast_scan's callers run it.        *)
CONSTANT Root

ASSUME RootAssumption == Root \in Dirs

Init ==
    /\ stack = <<Root>>
    /\ visited = {}
    /\ yielded = <<>>
Next == Step
Spec == Init /\ [][Next]_walkVars /\ WF_walkVars(Step)

\* is_dir(follow_symlinks=False) edges out of listable directories.
DescentGraph ==
    [node |-> Dirs,
     edge |-> {<<Parent[e], Target[e]>> : e \in {x \in Entries :
                   Kind[x] \in DirKinds /\ Parent[x] \notin Unreadable}}]

\* The real directories a walk from Root must list.
Listable == ({Root} \cup Descendants(DescentGraph, Root)) \ Unreadable

YieldedDirs == {yielded[i].dir : i \in 1..Len(yielded)}

\* A yielded (path, dirs, files) triple.
Yield == [dir : Dirs, dirs : Seq(Entries), files : Seq(Entries)]

TypeOK ==
    /\ stack \in Seq(Dirs)
    /\ visited \subseteq Dirs
    /\ yielded \in Seq(Yield)

(***************************************************************************)
(* Spec §4.1 / §8: no real directory is yielded twice, whatever junction   *)
(* cycles the tree holds.                                                  *)
(***************************************************************************)
NoDirTwice ==
    \A i, j \in 1..Len(yielded) : i # j => yielded[i].dir # yielded[j].dir

(***************************************************************************)
(* When the generator is exhausted it has yielded exactly the listable     *)
(* directories reachable from the root through is_dir entries: none is     *)
(* missed after an unreadable sibling, and no symbolic link is descended.  *)
(***************************************************************************)
WalkExact == Exhausted => YieldedDirs = Listable

\* Every walk ends, junction cycles included.
Termination == <>Exhausted
=============================================================================
