--------------------------- MODULE MC_TreeWalker ---------------------------
(* A tree with a junction cycle back to the root, two routes to the same   *)
(* directory, a symbolic link to a directory outside the walk, an          *)
(* unreadable directory that hides one more, and an entry is_dir rejects. *)
EXTENDS TreeWalker

\*   r --e1 dir--> a --e3 junction--> r          (cycle)
\*   r --e2 dir--> b (unreadable) --e6 dir--> o  (never listed)
\*   r --e5 dir--> c <--e9 junction-- a          (reached twice)
\*   a: e4 link (to o),  c: e7 file,  r: e8 unstatable
MCDirs == {"r", "a", "b", "c", "o"}
\*   r: e10 file,  a: e11 file
MCEntries == 1..11
MCParent == <<"r", "r", "a", "a", "r", "b", "c", "r", "a", "r", "a">>
MCKind == <<"dir", "dir", "junction", "link", "dir", "dir", "file", "unstatable",
            "junction", "file", "file">>
MCTarget == <<"a", "b", "r", "o", "c", "o", "o", "o", "c", "o", "o">>
MCUnreadable == {"b"}
=============================================================================
