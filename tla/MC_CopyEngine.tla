--------------------------- MODULE MC_CopyEngine ---------------------------
(***************************************************************************)
(* A backup of a four-file tree with the pattern ".e1": three tasks on two *)
(* pool threads (so tasks overlap and one waits in the executor's queue),  *)
(* and a user cancel at any moment.                                        *)
(***************************************************************************)
EXTENDS CopyEngine

CONSTANTS E1, E2

MCFiles == 1..4
MCExt == <<E1, E1, E2, E1>>
MCPatterns == {E1}
=============================================================================
