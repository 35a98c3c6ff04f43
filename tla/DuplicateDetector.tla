-------------------------- MODULE DuplicateDetector --------------------------
(***************************************************************************)
(* MainWindow.find_duplicates and the "Delete Duplicates" branch of        *)
(* MainWindow.run_deduplication (src/sak_utiliy.py).                       *)
(*                                                                         *)
(* find_duplicates consumes fast_scan (module TreeWalker) one yielded      *)
(* triple at a time and hashes its files in listing order.  The call site  *)
(* passes min_size = 0 and file_extensions = None, so neither filter skips *)
(* a file; getsize and chunked_file_hash raise for the same files (broken  *)
(* links, links to directories, unreadable files), which are skipped.      *)
(* A file-kind entry is read through: a regular file is its own content,   *)
(* a symbolic link is the regular file it points to (LinkTo), or NoFile.   *)
(* A digest is Content of that regular file (collisions are identity).     *)
(***************************************************************************)
EXTENDS Integers, Sequences, FiniteSets, SequencesExt

CONSTANTS Dirs, Entries, Parent, Kind, Target, Unreadable, Root,
          LinkTo,   \* LinkTo[e]: the directory or regular file a "link" resolves to, or NoFile
          Content,  \* Content[e]: the digest of regular file e's bytes
          Digests,  \* the digests
          NoFile,   \* what a link resolves to when it cannot be read as a file
          NoPath,   \* hashes[h] before a path with digest h is seen
          BaseName, \* BaseName[e]: os.path.basename of entry e, a name record
          TargetDir,  \* the directory the Move branch moves duplicates to
          TargetInit, \* what TargetDir holds before: name -> object
          Dangling,   \* objects of TargetInit that are broken symbolic links
          MaxCounter  \* bound on the `counter` of the free-name loop

VARIABLES stack, visited, yielded,
          pending,        \* files of the current triple not yet hashed
          hashes,         \* find_duplicates' `hashes`: digest -> first path
          duplicates,     \* its `duplicates`: digest -> list of paths
          order,          \* the keys of `duplicates` in insertion order
          phase,          \* "scan", "choose", "delete", "done"
          todo,           \* paths the delete loop has still to remove
          removed,        \* entries os.remove has unlinked
          total_deleted,  \* the delete loop's counter
          tdir,           \* what each name of TargetDir holds
          relocated,      \* entries os.rename has moved into TargetDir
          moved           \* the move loop's counter

W == INSTANCE TreeWalker

moveVars == <<tdir, relocated, moved>>
vars == <<stack, visited, yielded, pending, hashes, duplicates, order,
          phase, todo, removed, total_deleted, moveVars>>

RegularFiles == {x \in Entries : Kind[x] = "file"}

ASSUME LinkToAssumption ==
    \A e \in Entries : Kind[e] = "link" => LinkTo[e] \in Dirs \cup RegularFiles \cup {NoFile}
ASSUME ContentAssumption ==
    \A e \in Entries : Kind[e] = "file" => Content[e] \in Digests
\* The user picks a directory outside the scanned tree.
ASSUME TargetAssumption == TargetDir \notin Dirs /\ Dangling \subseteq Range(TargetInit)
ASSUME MaxCounterAssumption == MaxCounter \in Nat

\* What the path names once symbolic links are followed.
Resolve(e) == IF Kind[e] = "file" THEN e ELSE LinkTo[e]

\* getsize and open(e, "rb") succeed: the path reaches a regular file.
Hashable(e) == Resolve(e) \in RegularFiles

Digest(e) == Content[Resolve(e)]

Init ==
    /\ W!Init
    /\ pending = <<>>
    /\ hashes = [h \in Digests |-> NoPath]
    /\ duplicates = [h \in Digests |-> <<>>]
    /\ order = <<>>
    /\ phase = "scan"
    /\ todo = <<>>
    /\ removed = {}
    /\ total_deleted = 0
    /\ tdir = TargetInit
    /\ relocated = {}
    /\ moved = 0

\* `for dirpath, dirnames, filenames in fast_scan(directory)`: the next
\* iteration of the generator, once the previous triple's files are done.
NextTriple ==
    /\ phase = "scan"
    /\ pending = <<>>
    /\ W!Step
    /\ pending' = IF Len(yielded') > Len(yielded) THEN Last(yielded').files ELSE <<>>
    /\ UNCHANGED <<hashes, duplicates, order, phase, todo, removed, total_deleted, moveVars>>

\* Mutant: the first path is appended on every repeat, without the
\* `not in duplicates[file_hash]` test.
HashFileAppendFirstAlways ==
    /\ phase = "scan"
    /\ pending # <<>>
    /\ LET e == Head(pending)
           h == Digest(e) IN
       /\ pending' = Tail(pending)
       /\ IF ~Hashable(e)
            THEN UNCHANGED <<hashes, duplicates, order>>
          ELSE IF hashes[h] = NoPath
            THEN /\ hashes' = [hashes EXCEPT ![h] = e]
                 /\ UNCHANGED <<duplicates, order>>
          ELSE /\ duplicates' = [duplicates EXCEPT ![h] =
                      Append(Append(duplicates[h], e), hashes[h])]
               /\ order' = IF duplicates[h] = <<>> THEN Append(order, h) ELSE order
               /\ UNCHANGED hashes
    /\ UNCHANGED <<stack, visited, yielded, phase, todo, removed, total_deleted, moveVars>>

(***************************************************************************)
(* One `for filename in filenames` iteration.  A repeat digest appends the *)
(* new path, then the first path if it is not already in the group: the   *)
(* group reads [second, first, third, ...].                                *)
(***************************************************************************)
HashFile ==
    /\ phase = "scan"
    /\ pending # <<>>
    /\ LET e == Head(pending)
           h == Digest(e) IN
       /\ pending' = Tail(pending)
       /\ IF ~Hashable(e)
            THEN UNCHANGED <<hashes, duplicates, order>>
          ELSE IF hashes[h] = NoPath
            THEN /\ hashes' = [hashes EXCEPT ![h] = e]
                 /\ UNCHANGED <<duplicates, order>>
          ELSE LET g == Append(duplicates[h], e) IN
               /\ duplicates' = [duplicates EXCEPT ![h] =
                      IF \E i \in 1..Len(g) : g[i] = hashes[h] THEN g
                      ELSE Append(g, hashes[h])]
               /\ order' = IF duplicates[h] = <<>> THEN Append(order, h) ELSE order
               /\ UNCHANGED hashes
    /\ UNCHANGED <<stack, visited, yielded, phase, todo, removed, total_deleted, moveVars>>

\* The generator is exhausted: the mapping is returned and shown.
EndScan ==
    /\ phase = "scan"
    /\ pending = <<>>
    /\ W!Exhausted
    /\ phase' = IF order = <<>> THEN "done" ELSE "choose"
    /\ UNCHANGED <<stack, visited, yielded, pending, hashes, duplicates, order,
                   todo, removed, total_deleted, moveVars>>

\* The action box: "Delete Duplicates", and "Move Duplicates" once a target
\* directory is chosen, queue paths[1:] of every group in dict order; Save
\* Report, Cancel and a cancelled directory dialog change no file.
Choose ==
    /\ phase = "choose"
    /\ \/ /\ phase' \in {"delete", "move"}
          /\ todo' = FlattenSeq([i \in 1..Len(order) |-> Tail(duplicates[order[i]])])
       \/ /\ phase' = "done"
          /\ UNCHANGED todo
    /\ UNCHANGED <<stack, visited, yielded, pending, hashes, duplicates, order,
                   removed, total_deleted, moveVars>>

\* os.remove(path): it unlinks the path itself (a link, not its target),
\* or raises and the error is logged.
DeletePath ==
    /\ phase = "delete"
    /\ todo # <<>>
    /\ todo' = Tail(todo)
    /\ \/ /\ removed' = removed \cup {Head(todo)}
          /\ total_deleted' = total_deleted + 1
       \/ UNCHANGED <<removed, total_deleted>>
    /\ UNCHANGED <<stack, visited, yielded, pending, hashes, duplicates, order, phase, moveVars>>

EndDelete ==
    /\ phase = "delete"
    /\ todo = <<>>
    /\ phase' = "done"
    /\ UNCHANGED <<stack, visited, yielded, pending, hashes, duplicates, order,
                   todo, removed, total_deleted, moveVars>>

\* os.path.exists follows links: a link whose target was moved or removed,
\* or never existed, does not exist.  Links name their targets absolutely.
Live(o) ==
    IF o \in Entries
      THEN Kind[o] = "link" => LinkTo[o] \notin removed \cup relocated \cup {NoFile}
      ELSE o \notin Dangling

Exists(nm) == nm \in DOMAIN tdir /\ Live(tdir[nm])

\* os.path.join(target_dir, base), then f"{stem}_{counter}{ext}".
Candidate(b, k) == IF k = 0 THEN b ELSE [b EXCEPT !.sfx = Append(@, k)]

\* Mutant: the first name is taken without the exists test.
TargetNameNoProbe(b) == b

\* The first candidate the `if` and `while os.path.exists` find free.
TargetName(b) ==
    Candidate(b, CHOOSE k \in 0..MaxCounter :
                     /\ ~Exists(Candidate(b, k))
                     /\ \A j \in 0..(k - 1) : Exists(Candidate(b, j)))

(***************************************************************************)
(* One `for path in paths[1:]` iteration of the Move branch: the free      *)
(* name, then os.rename, which replaces what a POSIX name held (a broken   *)
(* link) or raises (another device, no rights) and is logged.              *)
(***************************************************************************)
MovePath ==
    /\ phase = "move"
    /\ todo # <<>>
    /\ LET e == Head(todo)
           b == BaseName[e] IN
       /\ \E k \in 0..MaxCounter : ~Exists(Candidate(b, k))
       /\ \/ /\ tdir' = [nm \in DOMAIN tdir \cup {TargetName(b)} |->
                            IF nm = TargetName(b) THEN e ELSE tdir[nm]]
             /\ relocated' = relocated \cup {e}
             /\ moved' = moved + 1
          \/ UNCHANGED moveVars
    /\ todo' = Tail(todo)
    /\ UNCHANGED <<stack, visited, yielded, pending, hashes, duplicates, order,
                   phase, removed, total_deleted>>

EndMove ==
    /\ phase = "move"
    /\ todo = <<>>
    /\ phase' = "done"
    /\ UNCHANGED <<stack, visited, yielded, pending, hashes, duplicates, order,
                   todo, removed, total_deleted, moveVars>>

Next == NextTriple \/ HashFile \/ EndScan \/ Choose \/ DeletePath \/ EndDelete
        \/ MovePath \/ EndMove

Spec == Init /\ [][Next]_vars /\ WF_vars(Next)

-----------------------------------------------------------------------------
\* Every hashable file-kind entry the walk listed.
Scanned == {e \in Entries : \E i \in 1..Len(yielded) :
                \E j \in 1..Len(yielded[i].files) : yielded[i].files[j] = e}
ScannedWith(h) == {e \in Scanned : Hashable(e) /\ Digest(e) = h}

(***************************************************************************)
(* Spec §8 on find_duplicates: once the walk is over, each reported group  *)
(* lists, once each, exactly the scanned paths with its digest, and there  *)
(* is a group for every digest two scanned paths share.                    *)
(***************************************************************************)
GroupsExact ==
    phase # "scan" =>
        \A h \in Digests :
            /\ IsInjective(duplicates[h])
            /\ IF Cardinality(ScannedWith(h)) >= 2
                 THEN ToSet(duplicates[h]) = ScannedWith(h)
                 ELSE duplicates[h] = <<>>

(***************************************************************************)
(* "Delete Duplicates" removes copies, never the last copy: every content  *)
(* some regular file in the scanned tree held is still held by a regular   *)
(* file that was not removed.                                              *)
(***************************************************************************)
NoContentLost ==
    phase = "done" =>
        \A e \in Scanned : Hashable(e) =>
            \E f \in Entries \ removed : Kind[f] = "file" /\ Content[f] = Digest(e)

(***************************************************************************)
(* "Move Duplicates" never overwrites a file: every regular file it moved, *)
(* and every file the target directory already held, is still named by    *)
(* some name of the target directory, and the count it reports is the     *)
(* number of paths it moved.                                               *)
(***************************************************************************)
MovedKept ==
    /\ {e \in relocated : Kind[e] = "file"} \cup (Range(TargetInit) \ Dangling)
          \subseteq Range(tdir)
    /\ moved = Cardinality(relocated)
=============================================================================
