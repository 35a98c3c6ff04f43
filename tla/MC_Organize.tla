---------------------------- MODULE MC_Organize -----------------------------
(* A directory with two PDFs whose names collide with each other and with  *)
(* a file already in the pdf folder, a file without extension that cannot  *)
(* be moved, and a file whose name ends in a bare dot.                     *)
EXTENDS Organize, TLC

MCStems == {"a", "b", "pdf", "NoExtension", "_logs"}
\* a.pdf, a_1.pdf, b, a.
APdf == Name("a", <<>>, TRUE, "pdf")
A1Pdf == Name("a", <<1>>, TRUE, "pdf")
B == Name("b", <<>>, FALSE, "")
ADot == Name("a", <<>>, TRUE, "")
PdfDir == <<FolderName("pdf")>>

\*   path/ a.pdf (f1), a_1.pdf (f2), b (f3, in use), a. (f4), pdf/a.pdf (f5)
MCFiles == {"f1", "f2", "f3", "f4", "f5"}
MCInitFS == (<<APdf>> :> "f1") @@ (<<A1Pdf>> :> "f2") @@ (<<B>> :> "f3")
            @@ (<<ADot>> :> "f4") @@ (PdfDir :> "DIR") @@ (<<FolderName("pdf"), APdf>> :> "f5")

\*   path/ a.pdf (f1), pdf (f2, a file without extension), b (f3)
MCClashFiles == {"f1", "f2", "f3"}
MCClashFS == (<<APdf>> :> "f1") @@ (PdfDir :> "f2") @@ (<<B>> :> "f3")
=============================================================================
