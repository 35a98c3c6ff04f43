----------------------- MODULE MC_DuplicateDetector -----------------------
(* A scanned directory r with a subdirectory s and a junction back to r.   *)
(* Two regular files share digest D1, s holds a symbolic link to one of    *)
(* them; a link to a directory and a file with a unique digest D2 complete it.     *)
(* The Move branch moves into a directory T outside the tree that already  *)
(* holds a.txt and a broken link a_1.txt.                                  *)
EXTENDS DuplicateDetector, TLC

CONSTANTS D1, D2, R, S, T, T1, T2

\*   r: e1 dir -> s, e2 file (D1), e5 file (D2), e6 link to directory s
\*   s: e3 link -> e2, e4 file (D1), e7 junction -> r
MCDirs == {R, S}
MCEntries == 1..7
MCParent == <<R, R, S, S, R, R, S>>
MCKind == <<"dir", "file", "link", "file", "file", "link", "junction">>
MCTarget == <<S, R, R, R, R, R, R>>
MCLinkTo == <<NoFile, NoFile, 2, NoFile, NoFile, S, NoFile>>
MCContent == <<D2, D1, D2, D1, D2, D2, D2>>

Nm(s, x, e) == [stem |-> s, sfx |-> x, ext |-> e]

\*   r: e1 s, e2 a.txt, e5 c.txt, e6 l;  s: e3 l.txt, e4 a.txt, e7 j
MCBaseName == <<Nm("s", <<>>, ""), Nm("a", <<>>, ".txt"), Nm("l", <<>>, ".txt"),
                Nm("a", <<>>, ".txt"), Nm("c", <<>>, ".txt"), Nm("l", <<>>, ""),
                Nm("j", <<>>, "")>>
\*   T: a.txt (T1, a file), a_1.txt (T2, a broken link)
MCTargetInit == (Nm("a", <<>>, ".txt") :> T1) @@ (Nm("a", <<1>>, ".txt") :> T2)
=============================================================================
