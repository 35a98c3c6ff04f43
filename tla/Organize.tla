------------------------------ MODULE Organize ------------------------------
(***************************************************************************)
(* MainWindow.organize_directory (src/sak_utiliy.py): the user picks a     *)
(* directory `path` and confirms; ensure_logs_dir creates path/_logs; the  *)
(* loop takes one os.listdir snapshot and moves every non-directory entry  *)
(* into the subfolder named by its extension, making the folder with       *)
(* os.makedirs(exist_ok=True) and choosing the first free name among       *)
(* file, file_1, file_2, ... with os.path.exists.                          *)
(*                                                                         *)
(* A name is a record: the base stem, the numeric suffixes "_k" already    *)
(* appended to it, and what os.path.splitext takes as its extension: none  *)
(* (dot = FALSE), a bare trailing dot (dot = TRUE, ext = ""), or ".w".     *)
(* The tree is a function from paths to what they hold: <<n>> is an entry *)
(* of `path`, <<f, n>> an entry of its subfolder f.  Only one directory    *)
(* level matters: the loop lists `path` and looks into the folders.        *)
(***************************************************************************)
EXTENDS Integers, Sequences, FiniteSets, SequencesExt, Functions

CONSTANTS Stems,        \* base names
          Words,        \* extension words
          NoExtension,  \* the folder word "NoExtension"
          LogsStem,     \* "_logs"
          Files,        \* the regular files (their identities)
          Dir,          \* what a directory path holds
          Busy,         \* files shutil.move raises for (in use, no rights)
          InitFS,       \* the tree under `path` when the user picks it
          MaxCounter    \* bound on the `counter` of the free-name loop

Name(s, x, d, w) == [stem |-> s, sfx |-> x, dot |-> d, ext |-> w]

\* A folder of `path` named by a bare word.
FolderName(w) == Name(w, <<>>, FALSE, "")

\* The names a directory can hold.
Names == [stem : Stems, sfx : Seq(Nat), dot : BOOLEAN, ext : Words \cup {""}]

ASSUME WordsAssumption == Words \cup {NoExtension, LogsStem} \subseteq Stems
ASSUME DirAssumption == Dir \notin Files
\* The tree is finite, its paths are sequences of names, it holds
\* directories and each of the files, and each file at one path.
ASSUME InitFSAssumption ==
    /\ IsFiniteSet(DOMAIN InitFS)
    /\ DOMAIN InitFS \subseteq Seq(Names)
    /\ \A p \in DOMAIN InitFS : InitFS[p] \in Files \cup {Dir}
    /\ Files \subseteq Range(InitFS)
    /\ \A p, q \in DOMAIN InitFS : InitFS[p] = InitFS[q] /\ InitFS[p] \in Files => p = q
ASSUME MaxCounterAssumption == MaxCounter \in Nat

VARIABLES fs,           \* the tree: path -> Dir or a file
          phase,        \* "pick", "loop", "declined", "done", "aborted"
          listing,      \* os.listdir(path), in the OS's order
          next,         \* index of the entry the `for` loop is at
          moved_count,  \* moved_count
          snapshot      \* the files the listing named: name -> file

vars == <<fs, phase, listing, next, moved_count, snapshot>>

Top(f) == {p[1] : p \in {q \in DOMAIN f : Len(q) = 1}}

\* extension = extension[1:] if extension else "NoExtension"
Extension(n) == IF n.dot THEN n.ext ELSE NoExtension

\* os.path.join(path, extension): `path` itself when the extension is "".
FolderPath(n) == IF Extension(n) = "" THEN <<>> ELSE <<FolderName(Extension(n))>>

\* Mutant: the loop recomputes new_filename but never assigns it.
CandidateNoRename(n, k) == n

\* The k-th name the while loop tries: file, then f"{filename}_{k}.{ext}",
\* or f"{filename}_{k}" when extension is "NoExtension".
Candidate(n, k) ==
    IF k = 0 THEN n
    ELSE Name(n.stem, Append(n.sfx, k), Extension(n) # NoExtension,
              IF Extension(n) # NoExtension THEN Extension(n) ELSE "")

\* The k-th candidate is not taken in folder dir of tree f.
Free(f, dir, n, k) == Append(dir, Candidate(n, k)) \notin DOMAIN f

\* Mutant: dest_file_path is used without the exists loop.
DestPathNoProbe(f, dir, n) == Append(dir, n)

\* The first candidate the `while os.path.exists(dest_file_path)` loop
\* finds free.
DestPath(f, dir, n) ==
    Append(dir, Candidate(n, CHOOSE k \in 0..MaxCounter :
                                  /\ Free(f, dir, n, k)
                                  /\ \A j \in 0..(k - 1) : ~Free(f, dir, n, j)))

\* os.makedirs(dir, exist_ok=True) when dir is not a file.
MakeDirs(f, dir) ==
    IF dir = <<>> \/ dir \in DOMAIN f THEN f
    ELSE [p \in DOMAIN f \cup {dir} |-> IF p = dir THEN Dir ELSE f[p]]

\* shutil.move(src, dst): dst names what src named, src names nothing.
MoveTo(f, src, dst) ==
    [p \in (DOMAIN f \ {src}) \cup {dst} |-> IF p = dst THEN f[src] ELSE f[p]]

\* Mutant: moved_count is counted before shutil.move is tried.
MoveFileCountFirst(f1, src, dst) ==
    /\ fs' = IF fs[src] \in Busy THEN f1 ELSE MoveTo(f1, src, dst)
    /\ moved_count' = moved_count + 1

\* try: shutil.move(...); moved_count += 1  except: log the error.
MoveFile(f1, src, dst) ==
    IF fs[src] \in Busy
      THEN /\ fs' = f1
           /\ UNCHANGED moved_count
      ELSE /\ fs' = MoveTo(f1, src, dst)
           /\ moved_count' = moved_count + 1

Init ==
    /\ fs = InitFS
    /\ phase = "pick"
    /\ listing = <<>>
    /\ next = 1
    /\ moved_count = 0
    /\ snapshot = <<>>

(***************************************************************************)
(* From the directory dialog to the listdir: ensure_logs_dir(path) for the *)
(* preview message (os.makedirs raises, uncaught, when _logs is a file),   *)
(* the confirmation box, new_log_file (the same makedirs), os.listdir.     *)
(* The os.path.exists check cannot fail: path/_logs was just created.      *)
(***************************************************************************)
Begin ==
    /\ phase = "pick"
    /\ LET logs == <<FolderName(LogsStem)>>
           f1 == MakeDirs(fs, logs) IN
       IF logs \in DOMAIN fs /\ fs[logs] # Dir
         THEN /\ phase' = "aborted"
              /\ UNCHANGED <<fs, listing, snapshot>>
         ELSE /\ fs' = f1
              /\ \/ /\ phase' = "declined"
                    /\ UNCHANGED <<listing, snapshot>>
                 \/ /\ phase' = "loop"
                    /\ listing' \in SetToSeqs(Top(f1))
                    /\ snapshot' = [n \in {m \in Top(f1) : f1[<<m>>] \in Files} |-> f1[<<n>>]]
    /\ UNCHANGED <<next, moved_count>>

(***************************************************************************)
(* One iteration of `for file in os.listdir(path)`: skip a directory;      *)
(* else os.makedirs the extension's folder (FileExistsError, uncaught,     *)
(* when a file has that name), take the first candidate name that does not *)
(* exist there, and move; a failed move is logged and the loop goes on.    *)
(***************************************************************************)
OrganizeItem ==
    /\ phase = "loop"
    /\ next <= Len(listing)
    /\ LET n == listing[next]
           src == <<n>>
           dir == FolderPath(n) IN
       IF fs[src] = Dir
         THEN /\ next' = next + 1
              /\ UNCHANGED <<fs, phase, moved_count>>
       ELSE IF dir # <<>> /\ dir \in DOMAIN fs /\ fs[dir] # Dir
         THEN /\ phase' = "aborted"
              /\ UNCHANGED <<fs, next, moved_count>>
       ELSE LET f1 == MakeDirs(fs, dir) IN
            /\ \E k \in 0..MaxCounter : Free(f1, dir, n, k)
            /\ MoveFile(f1, src, DestPath(f1, dir, n))
            /\ next' = next + 1
            /\ UNCHANGED phase
    /\ UNCHANGED <<listing, snapshot>>

\* The loop ran out: the summary box.
Finish ==
    /\ phase = "loop"
    /\ next > Len(listing)
    /\ phase' = "done"
    /\ UNCHANGED <<fs, listing, next, moved_count, snapshot>>

Next == Begin \/ OrganizeItem \/ Finish

\* The GUI thread runs the slot to its end.
Spec == Init /\ [][Next]_vars /\ WF_vars(Next)

-----------------------------------------------------------------------------
\* The path a file is at.
Holder(o) == CHOOSE p \in DOMAIN fs : fs[p] = o

(***************************************************************************)
(* No file is ever lost: every file of the tree is still named by some     *)
(* path, whatever names the folders already held; the exists loop keeps   *)
(* shutil.move from overwriting a file of the same name.                   *)
(***************************************************************************)
FilesKept == Files \subseteq Range(fs)

(***************************************************************************)
(* When the summary is shown, every listed file that could be moved is in *)
(* the folder of its extension, keeps its stem and extends its suffixes,   *)
(* a file that could not stays where it was, and moved_count counts the    *)
(* moved ones.                                                             *)
(***************************************************************************)
OrganizedOnDone ==
    phase = "done" =>
        /\ \A n \in DOMAIN snapshot :
              LET p == Holder(snapshot[n]) IN
              IF snapshot[n] \in Busy THEN p = <<n>>
              ELSE /\ Front(p) = FolderPath(n)
                   /\ Last(p).stem = n.stem
                   /\ IsPrefix(n.sfx, Last(p).sfx)
        /\ moved_count = Cardinality({n \in DOMAIN snapshot : snapshot[n] \notin Busy})

(***************************************************************************)
(* The slot runs to its summary: no os.makedirs error escapes it half way *)
(* through the moves.                                                      *)
(***************************************************************************)
OrganizeCompletes == phase # "aborted"

\* The slot always returns.
Termination == <>(phase \in {"declined", "done", "aborted"})
=============================================================================
