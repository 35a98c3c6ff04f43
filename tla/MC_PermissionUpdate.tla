----------------------- MODULE MC_PermissionUpdate -----------------------
(* Roots r and a, a below r (so a is enumerated twice).  L below r is      *)
(* locked (0000) but owned, and holds I; a holds a junction back to r, a   *)
(* link to directory X outside the roots, a link to file 7 in X, and file  *)
(* 8 the user does not own.                                                *)
EXTENDS PermissionUpdate

CONSTANTS R, A, L, X, I

\*   R: e1 dir -> A, e2 dir -> L, e3 file
\*   A: e4 link -> X, e5 link -> e7, e8 file (denied), e9 junction -> R
\*   L: e6 dir -> I        X: e7 file
MCDirs == {R, A, L, X, I}
MCEntries == 1..9
MCParent == <<R, R, R, A, A, L, X, A, A>>
MCKind == <<"dir", "dir", "file", "link", "link", "dir", "file", "file", "junction">>
MCTarget == <<A, L, R, R, R, I, R, R, R>>
MCLinkTo == <<NoFile, NoFile, NoFile, X, 7, NoFile, NoFile, NoFile, NoFile>>
MCRoots == <<R, A>>
MCInitMode == (R :> "0755" @@ A :> "0700" @@ L :> "0000" @@ X :> "0755" @@ I :> "0755"
               @@ 3 :> "0700" @@ 7 :> "0700" @@ 8 :> "0700")
=============================================================================
