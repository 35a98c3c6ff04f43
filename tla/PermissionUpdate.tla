-------------------------- MODULE PermissionUpdate --------------------------
(***************************************************************************)
(* PermissionUpdateWorker (src/sak_utiliy.py): a QThread that enumerates  *)
(* every root with fast_scan (module TreeWalker, a fresh traversal per     *)
(* root), then either chmods every item (POSIX: 0o777 on what              *)
(* os.path.isdir calls a directory, 0o666 on the rest) or, on Windows,     *)
(* runs one recursive icacls grant per root and counts through the items   *)
(* for progress only.  The GUI thread may set `_cancel` at any moment; the *)
(* loops poll it before each item.                                         *)
(*                                                                         *)
(* Objects are the directories and the regular-file entries.  A mode is   *)
(* one of Modes; "0000" is a directory nobody can list.  os.chmod follows  *)
(* symbolic links, as does os.path.isdir; it raises for a broken link and  *)
(* for an object the user does not own (Denied), and the error is logged.  *)
(***************************************************************************)
EXTENDS Integers, Sequences, FiniteSets, SequencesExt

CONSTANTS Dirs, Entries, Parent, Kind, Target,
          LinkTo,    \* LinkTo[e]: what a "link" entry resolves to, or NoFile
          NoFile,
          Roots,     \* root_paths, a list of directories
          InitMode,  \* the mode of every object before the run
          Denied,    \* objects os.chmod raises for (not owned)
          NoResult

RegularFiles == {x \in Entries : Kind[x] = "file"}
Objects == Dirs \cup RegularFiles
Modes == {"0000", "0700", "0755", "0666", "0777"}

ASSUME LinkToPerm ==
    \A e \in Entries : Kind[e] = "link" => LinkTo[e] \in Objects \cup {NoFile}
ASSUME RootsAssumption == Roots \in Seq(Dirs) /\ Roots # <<>>
ASSUME InitModeAssumption == InitMode \in [Objects -> Modes]

VARIABLES stack, visited, yielded,
          Windows,    \* sys.platform.startswith("win"), fixed for the process
          mode,       \* the file system's mode bits
          phase,      \* "enum", "grant", "apply", "finished"
          next_root,  \* index of the next root fast_scan is started on
          all_items,  \* run's `all_items`
          granted,    \* number of roots _set_perms_windows has run on
          processed,  \* run's `processed`, = progress events emitted
          cancel,     \* the worker's `_cancel`
          result      \* the `finished` signal's (success, message)

W == INSTANCE TreeWalker WITH Unreadable <- {}, Root <- Roots[1]

\* The tree is one fast_scan can walk: typed entries over a finite set.
ASSUME WalkerAssumption ==
    /\ W!KindAssumption /\ W!ParentAssumption
    /\ W!TargetAssumption /\ W!EntriesAssumption

\* A directory cannot be listed while its mode is 0000.
Locked == {d \in Dirs : mode[d] = "0000"}

vars == <<stack, visited, yielded, Windows, mode, phase, next_root, all_items,
          granted, processed, cancel, result>>

Message == {"updated", "cancelled", "failed"}
Result == [success : BOOLEAN, msg : Message]

\* Before `finished` is emitted there is no (success, message) pair.
ASSUME NoResultAssumption == NoResult \notin Result

\* What a path names once links are followed (a directory path is itself).
Obj(x) == IF x \in Dirs THEN x ELSE IF Kind[x] = "file" THEN x ELSE LinkTo[x]

Init ==
    /\ stack = <<>> /\ visited = {} /\ yielded = <<>>
    /\ Windows \in BOOLEAN
    /\ mode = InitMode
    /\ phase = "enum"
    /\ next_root = 1
    /\ all_items = <<>>
    /\ granted = 0
    /\ processed = 0
    /\ cancel = FALSE
    /\ result = NoResult

\* `for base in self.root_paths: ... fast_scan(base)`: the next root.
BeginRoot ==
    /\ phase = "enum"
    /\ W!Exhausted
    /\ next_root <= Len(Roots)
    /\ W!Begin(Roots[next_root])
    /\ next_root' = next_root + 1
    /\ UNCHANGED <<mode, phase, all_items, granted, processed, cancel, result>>

\* One iteration of the generator: append(root) and extend(files).
Enumerate ==
    /\ phase = "enum"
    /\ W!Walk(Locked)
    /\ all_items' = IF Len(yielded') > Len(yielded)
                      THEN LET y == Last(yielded') IN Append(all_items, y.dir) \o y.files
                      ELSE all_items
    /\ UNCHANGED <<mode, phase, next_root, granted, processed, cancel, result>>

\* total = len(all_items); the platform branch.
EndEnumeration ==
    /\ phase = "enum"
    /\ W!Exhausted
    /\ next_root > Len(Roots)
    /\ phase' = IF Windows THEN "grant" ELSE "apply"
    /\ UNCHANGED <<stack, visited, yielded, mode, next_root, all_items,
                   granted, processed, cancel, result>>

(***************************************************************************)
(* _set_perms_windows(base): icacls base /grant Everyone:(OI)(CI)M /T /C.  *)
(* Its effect on the ACLs is the external tool's and is not modelled; its  *)
(* failure is logged.  The cancel flag is not polled here.                 *)
(***************************************************************************)
GrantRoot ==
    /\ phase = "grant"
    /\ granted' = granted + 1
    /\ phase' = IF granted + 1 = Len(Roots) THEN "apply" ELSE "grant"
    /\ UNCHANGED <<stack, visited, yielded, mode, next_root, all_items,
                   processed, cancel, result>>

\* Mutant: is_dir taken from the path itself, without following a link.
SetPermsPosixNoFollow(x) ==
    LET o == Obj(x) IN
    IF o = NoFile \/ o \in Denied THEN mode
    ELSE [mode EXCEPT ![o] = IF x \in Dirs THEN "0777" ELSE "0666"]

\* _set_perms_posix(path, is_dir=os.path.isdir(path)).
SetPermsPosix(x) ==
    LET o == Obj(x) IN
    IF o = NoFile \/ o \in Denied THEN mode
    ELSE [mode EXCEPT ![o] = IF o \in Dirs THEN "0777" ELSE "0666"]

\* Mutant: a chmod error escapes _set_perms_posix and reaches run()'s
\* handler, which emits (False, "Permission update failed").
ApplyItemErrorFatal ==
    /\ phase = "apply"
    /\ processed < Len(all_items)
    /\ IF cancel
         THEN /\ phase' = "finished"
              /\ result' = [success |-> FALSE, msg |-> "cancelled"]
              /\ UNCHANGED <<mode, processed>>
         ELSE IF ~Windows /\ Obj(all_items[processed + 1]) \in Denied \cup {NoFile}
         THEN /\ phase' = "finished"
              /\ result' = [success |-> FALSE, msg |-> "failed"]
              /\ UNCHANGED <<mode, processed>>
         ELSE /\ mode' = IF Windows THEN mode ELSE SetPermsPosix(all_items[processed + 1])
              /\ processed' = processed + 1
              /\ UNCHANGED <<phase, result>>
    /\ UNCHANGED <<stack, visited, yielded, next_root, all_items, granted, cancel>>

(***************************************************************************)
(* One `for path in all_items` iteration: poll _cancel, then (POSIX) chmod *)
(* the item, count it and emit progress.                                   *)
(***************************************************************************)
ApplyItem ==
    /\ phase = "apply"
    /\ processed < Len(all_items)
    /\ IF cancel
         THEN /\ phase' = "finished"
              /\ result' = [success |-> FALSE, msg |-> "cancelled"]
              /\ UNCHANGED <<mode, processed>>
         ELSE /\ mode' = IF Windows THEN mode ELSE SetPermsPosix(all_items[processed + 1])
              /\ processed' = processed + 1
              /\ UNCHANGED <<phase, result>>
    /\ UNCHANGED <<stack, visited, yielded, next_root, all_items, granted, cancel>>

\* The loop ran out: finished.emit(True, ...).
Finish ==
    /\ phase = "apply"
    /\ processed = Len(all_items)
    /\ phase' = "finished"
    /\ result' = [success |-> TRUE, msg |-> "updated"]
    /\ UNCHANGED <<stack, visited, yielded, mode, next_root, all_items,
                   granted, processed, cancel>>

\* _cancel_permission_update: only while perm_worker.isRunning().
Cancel ==
    /\ phase # "finished"
    /\ ~cancel
    /\ cancel' = TRUE
    /\ UNCHANGED <<stack, visited, yielded, mode, phase, next_root, all_items,
                   granted, processed, result>>

\* The worker thread's own steps.
\* The platform never changes under the process.
Run == (BeginRoot \/ Enumerate \/ EndEnumeration \/ GrantRoot \/ ApplyItem \/ Finish)
       /\ UNCHANGED Windows

Next == Run \/ (Cancel /\ UNCHANGED Windows)

\* The thread, once started, is scheduled until run() returns.
Spec == Init /\ [][Next]_vars /\ WF_vars(Run)

-----------------------------------------------------------------------------
\* The mode the policy gives an object: 0o777 directories, 0o666 files.
Policy(o) == IF o \in Dirs THEN "0777" ELSE "0666"

\* Every directory below a root through is_dir entries, readable or not,
\* and the regular files they hold.
TreeDirs ==
    LET G == [node |-> Dirs,
              edge |-> {<<Parent[e], Target[e]>> : e \in {x \in Entries : Kind[x] \in W!DirKinds}}]
    IN {Roots[i] : i \in 1..Len(Roots)} \cup
       UNION {W!Descendants(G, Roots[i]) : i \in 1..Len(Roots)}
TreeObjects == TreeDirs \cup {f \in RegularFiles : Parent[f] \in TreeDirs}

(***************************************************************************)
(* The terminal signal: it reports success exactly when every enumerated   *)
(* item was counted through, and failure only after a cancel request; a    *)
(* per-item chmod error never ends the run.                                *)
(***************************************************************************)
ProgressStream ==
    result # NoResult =>
        /\ result.success <=> processed = Len(all_items)
        /\ ~result.success => cancel

(***************************************************************************)
(* Per-item strategy: when the POSIX run reports success, every enumerated *)
(* item it could chmod, followed through links, has the policy's mode.     *)
(***************************************************************************)
NormalizedOnSuccess ==
    (~Windows /\ result # NoResult /\ result.success) =>
        \A i \in 1..Len(all_items) :
            LET o == Obj(all_items[i]) IN
            o \notin Denied \cup {NoFile} => mode[o] = Policy(o)

(***************************************************************************)
(* Spec 4.3: a successful POSIX run leaves every directory of the trees it *)
(* was given traversable, those it was locked out of included.             *)
(***************************************************************************)
TreeNormalized ==
    (~Windows /\ result # NoResult /\ result.success) =>
        \A d \in TreeDirs \ Denied : mode[d] = "0777"

(***************************************************************************)
(* The walk is symlink-averse: the run changes the mode of nothing outside *)
(* the trees below its roots.                                              *)
(***************************************************************************)
ChmodConfined ==
    \A o \in Objects : mode[o] # InitMode[o] => o \in TreeObjects
=============================================================================
